---- MODULE Spec2Model ----
(***************************************************************************)
(* Voice interaction pipeline of unified_processor.py: the recognition     *)
(* token manager (AccessToken), the recognition client (ASRProvider), the  *)
(* generation client (AliBLProvider), the synthesis client (TTSProvider)   *)
(* and the orchestrator (AliyunProcessor.process), with the streaming      *)
(* calls of the two clients (stream_response, stream_speech) and           *)
(* VoiceProcessor.text_to_speech of voice_processor.py.                    *)
(*                                                                         *)
(* The program runs on one asyncio event loop: the code between two awaits *)
(* is atomic, so every action below is one such segment of a coroutine.    *)
(***************************************************************************)
EXTENDS Integers, Sequences, FiniteSets, TLC

\* ------------------------------------------------------------------ bounds
NumCallers == 2         \* coroutines that may call AccessToken.get_token
MaxClock == 60          \* the clock stops advancing here
TickStep == 30          \* granularity of the clock, in seconds

\* --------------------------------------------------------------- constants
max_retries == 3        \* attempts of every retry loop
RefreshMargin == 60     \* "- 60" of the freshness test and of the stored expiry
DefaultExpire == 1800   \* result["Token"].get("ExpireTime", 1800)

None == 0               \* Python None for a token (token ids are >= 1)
Procs == 1..NumCallers
TokenIds == {1, 2}
\* ExpireTime values the token endpoint may report, in seconds
ExpireTimes == {90, 150, DefaultExpire}

VARIABLES
    now,          \* time.time()
    token,        \* AccessToken.token
    expire_time,  \* AccessToken.expire_time
    lock,         \* AccessToken._lock: its holder, None when free
    lockq,        \* coroutines waiting for _lock, in arrival order
    tokReqs,      \* requests sent to the token endpoint so far
    first,        \* the answer to the first request sent to the token endpoint
    gt,           \* per coroutine: the frame of its get_token call
    asr,          \* per coroutine: the frame of its ASRProvider.speech_to_text call
    llm,          \* per coroutine: the frame of its AliBLProvider.generate_response call
    tts,          \* per coroutine: the frame of its TTSProvider.text_to_speech call
    ttsm,         \* TTSProvider.token, .token_expire, ._lock and the requests sent
    run,          \* per coroutine: the frame of its AliyunProcessor.process call
    stats,        \* AliyunProcessor.stats
    vp,           \* per coroutine: the frame of its VoiceProcessor.text_to_speech call
    sr,           \* per coroutine: the frame of its AliBLProvider.stream_response call
    ss,           \* per coroutine: the frame of its TTSProvider.stream_speech call
    vq,           \* per coroutine: the frame of its VoiceProcessor.process_voice_query call
    ps,           \* per coroutine: the frame of its AliyunProcessor.process_streaming call
    cv,           \* per coroutine: the frame of its ASRProvider._convert_audio_sync call
    tw,           \* the answers of the token endpoint replayed to both token clients
    hr            \* per coroutine: the frame of its HTTPVoiceHandler.handle_request call

tokvars == <<now, token, expire_time, lock, lockq, tokReqs, first, gt>>
auxvars == <<vq, ps, cv, tw, hr>>
callvars == <<vp, sr, ss, vq, ps, cv, tw, hr>>
pipevars == <<asr, llm, tts, ttsm, run, stats, vp, sr, ss, vq, ps, cv, tw, hr>>
vars == <<now, token, expire_time, lock, lockq, tokReqs, first, gt,
          asr, llm, tts, ttsm, run, stats, vp, sr, ss, vq, ps, cv, tw, hr>>

\* 2 ** attempt
Pow2(n) == IF n = 0 THEN 1 ELSE IF n = 1 THEN 2 ELSE 4

\* --------------------------------------------------- AccessToken.get_token
\* a get_token frame: pc, the time read on entry, the loop index, the
\* requests this call sent, the failed attempts it saw, the sleeps it made,
\* the value it returned, whether it returned from the cache, and whether it
\* entered before the token endpoint had answered anything
GtIdle ==
    [pc |-> "idle", cur |-> 0, attempt |-> 0, reqs |-> 0, fails |-> 0,
     slept |-> <<>>, ret |-> None, cached |-> FALSE, early |-> FALSE]

NoAnswer == [seen |-> FALSE, ok |-> FALSE, expire |-> 0]

\* the answers of the token endpoint to one request
\* ("ok": HTTP 200 with a Token object; "badbody": HTTP 200 without one, which
\* raises inside the try; "http": another status; "timeout"; "error": any
\* other exception of the transport)
Absent == -1
TokenResponses ==
    [kind : {"ok"}, id : TokenIds, expire : ExpireTimes \cup {Absent}]
    \cup [kind : {"badbody", "http", "timeout", "error"}, id : {None}, expire : {Absent}]

\* one more answer: HTTP 200 with a Token object whose Id is there and whose
\* ExpireTime is no number (a JSON null or a string), so that the sum of line
\* 86 raises after line 84 has stored the Id
BadExpire(id) == [kind |-> "badexpire", id |-> id, expire |-> Absent]

\* result["Token"].get("ExpireTime", 1800)
TokenExpire(r) == IF r.expire = Absent THEN DefaultExpire ELSE r.expire

\* if self.token and current_time < self.expire_time - 60
NoMarginValid(cur) == token # None /\ cur < expire_time
TokenValid(cur) == token # None /\ cur < expire_time - RefreshMargin

\* the second test, inside "async with self._lock"
NoRecheck(cur) == FALSE
Recheck(cur) == TokenValid(cur)

\* if attempt < max_retries - 1 (and, after it, the end of range(max_retries))
OneMoreAttempt(attempt) == attempt < max_retries
HasNextAttempt(attempt) == attempt < max_retries - 1

\* self.expire_time = time.time() + token_expire - 60
StoredExpiry(t, token_expire) == t + token_expire - RefreshMargin

\* leaving "async with self._lock": the first waiter, if any, gets the lock
Release ==
    IF lockq = <<>>
    THEN /\ lock' = None
         /\ lockq' = lockq
    ELSE /\ lock' = Head(lockq)
         /\ lockq' = Tail(lockq)

\* async with self._lock: the lock is taken at once when nobody holds it or
\* waits for it
NoLock == TRUE
LockFree == lock = None /\ lockq = <<>>

\* session.get(url, params=params, timeout=30): one request leaves
SendTokenRequest(c, f) ==
    /\ tokReqs' = tokReqs + 1
    /\ gt' = [gt EXCEPT ![c] = [f EXCEPT !.pc = "inflight", !.reqs = f.reqs + 1]]

\* entry of get_token up to its first await
GtEnter(c) ==
    /\ gt[c].pc = "enter"
    /\ LET f == [gt[c] EXCEPT !.cur = now, !.early = ~first.seen] IN
       IF TokenValid(now)
       THEN /\ gt' = [gt EXCEPT ![c] = [f EXCEPT !.pc = "ret", !.ret = token,
                                                 !.cached = TRUE]]
            /\ UNCHANGED <<now, token, expire_time, lock, lockq, tokReqs, first>>
       ELSE IF LockFree
       THEN /\ lock' = c
            /\ SendTokenRequest(c, f)
            /\ UNCHANGED <<now, token, expire_time, lockq, first>>
       ELSE /\ lockq' = Append(lockq, c)
            /\ gt' = [gt EXCEPT ![c] = [f EXCEPT !.pc = "wait"]]
            /\ UNCHANGED <<now, token, expire_time, lock, tokReqs, first>>

\* a waiter is given the lock and checks again, with the time it read on entry
GtWake(c) ==
    /\ gt[c].pc = "wait"
    /\ lock = c
    /\ IF Recheck(gt[c].cur)
       THEN /\ gt' = [gt EXCEPT ![c].pc = "ret", ![c].ret = token,
                                ![c].cached = TRUE]
            /\ Release
            /\ UNCHANGED <<now, token, expire_time, tokReqs, first>>
       ELSE /\ SendTokenRequest(c, gt[c])
            /\ UNCHANGED <<now, token, expire_time, lock, lockq, first>>

\* the for loop is over without a token: return None
GtGiveUp(c, f) ==
    /\ gt' = [gt EXCEPT ![c] = [f EXCEPT !.pc = "ret", !.ret = None]]
    /\ Release
    /\ UNCHANGED <<now, token, expire_time, tokReqs>>

\* the answer r to the request in flight
GtAnswer(c, r) ==
    /\ gt[c].pc = "inflight"
    /\ LET f == IF r.kind = "ok" THEN gt[c]
                ELSE [gt[c] EXCEPT !.fails = gt[c].fails + 1] IN
        /\ CASE r.kind = "ok" ->
                   /\ token' = r.id
                   /\ expire_time' = StoredExpiry(now, TokenExpire(r))
                   /\ gt' = [gt EXCEPT ![c] = [f EXCEPT !.pc = "ret", !.ret = r.id]]
                   /\ Release
                   /\ UNCHANGED <<now, tokReqs>>
             [] r.kind = "http" ->
                   \* no sleep on this branch: the loop goes on at once
                   IF HasNextAttempt(f.attempt)
                   THEN /\ SendTokenRequest(c, [f EXCEPT !.attempt = f.attempt + 1])
                        /\ UNCHANGED <<now, token, expire_time, lock, lockq>>
                   ELSE GtGiveUp(c, f)
             [] r.kind = "badexpire" ->
                   \* self.token is assigned, then the sum of line 86 raises
                   /\ token' = r.id
                   /\ IF HasNextAttempt(f.attempt)
                      THEN /\ gt' = [gt EXCEPT ![c] =
                                       [f EXCEPT !.pc = "sleep",
                                                 !.slept = Append(f.slept, Pow2(f.attempt))]]
                           /\ UNCHANGED <<now, expire_time, lock, lockq, tokReqs>>
                      ELSE /\ gt' = [gt EXCEPT ![c] = [f EXCEPT !.pc = "ret", !.ret = None]]
                           /\ Release
                           /\ UNCHANGED <<now, expire_time, tokReqs>>
             [] OTHER ->
                   \* asyncio.TimeoutError, or any other exception
                   IF HasNextAttempt(f.attempt)
                   THEN /\ gt' = [gt EXCEPT ![c] =
                                    [f EXCEPT !.pc = "sleep",
                                              !.slept = Append(f.slept, Pow2(f.attempt))]]
                        /\ UNCHANGED <<now, token, expire_time, lock, lockq, tokReqs>>
                   ELSE GtGiveUp(c, f)

GtResponse(c) ==
    /\ \E r \in TokenResponses : GtAnswer(c, r)
    /\ UNCHANGED first

\* the same, remembering the first answer the token endpoint ever gave
GtFirstResponse(c) ==
    \E r \in TokenResponses :
        /\ GtAnswer(c, r)
        /\ first' = IF first.seen THEN first
                    ELSE [seen |-> TRUE, ok |-> r.kind = "ok",
                          expire |-> IF r.kind = "ok" THEN TokenExpire(r) ELSE 0]

\* asyncio.sleep(2 ** attempt) is over: the next attempt
GtSleepDone(c) ==
    /\ gt[c].pc = "sleep"
    /\ SendTokenRequest(c, [gt[c] EXCEPT !.attempt = gt[c].attempt + 1])
    /\ UNCHANGED <<now, token, expire_time, lock, lockq, first>>

\* a coroutine calls token_manager.get_token()
TokCall(c) ==
    /\ gt[c].pc = "idle"
    /\ gt' = [gt EXCEPT ![c].pc = "enter"]
    /\ UNCHANGED <<now, token, expire_time, lock, lockq, tokReqs, first>>

\* time passes
Tick ==
    /\ now + TickStep <= MaxClock
    /\ now' = now + TickStep
    /\ UNCHANGED <<token, expire_time, lock, lockq, tokReqs, first, gt>>

TokInit ==
    /\ now = 0
    /\ token = None
    /\ expire_time = 0
    /\ lock = None
    /\ lockq = <<>>
    /\ tokReqs = 0
    /\ first = NoAnswer
    /\ gt = [c \in Procs |-> GtIdle]

\* ------------------------------------------------ values of the pipeline
\* Python None where a string is expected; "" is the empty string
PyNone == "<None>"
Truthy(x) == x \notin {PyNone, ""}

AsrSuccess == 20000000      \* result.get("status") == 20000000
InvalidToken == 40000004    \* result.get("status") == 40000004
AsrStatuses == {AsrSuccess, InvalidToken, 40000001}

\* the coroutines that run AliyunProcessor.process
PipeProcs == {1}
\* f"session_{uuid.uuid4().hex[:8]}"
SessionIds == {"session_a"}

\* an audio payload: whether wave.open can parse it, whether ffmpeg can decode
\* it (media), its header fields, and who wrote its bytes: two payloads are
\* byte-identical exactly when the records are equal
Wav(rate, channels, width, by) ==
    [parse |-> TRUE, media |-> TRUE, framerate |-> rate, nchannels |-> channels,
     sampwidth |-> width, by |-> by]
Canonical == Wav(16000, 1, 2, "input")
\* what ffmpeg -ar 16000 -ac 1 -acodec pcm_s16le -f wav writes
FfmpegOutput == Wav(16000, 1, 2, "ffmpeg")
Audios ==
    {Canonical,
     Wav(8000, 1, 2, "input"),
     \* no WAV, but an audio file ffmpeg decodes
     [parse |-> FALSE, media |-> TRUE, framerate |-> 0, nchannels |-> 0,
      sampwidth |-> 0, by |-> "input"],
     \* no audio file at all
     [parse |-> FALSE, media |-> FALSE, framerate |-> 0, nchannels |-> 0,
      sampwidth |-> 0, by |-> "input"]}

\* ASRProvider._validate_audio_format
Validate48k(a) == a.parse /\ a.framerate = 48000 /\ a.nchannels = 1 /\ a.sampwidth = 2
ValidateAudioFormat(a) ==
    IF ~a.parse THEN FALSE
    ELSE IF a.framerate # 16000 THEN FALSE
    ELSE IF a.nchannels # 1 THEN FALSE
    ELSE IF a.sampwidth # 2 THEN FALSE
    ELSE TRUE

\* ASRProvider._simple_audio_conversion: the frames under a new header
DropUnparseable(a) ==
    IF ~a.parse THEN [a EXCEPT !.by = "none"]
    ELSE IF a.framerate = 16000 /\ a.nchannels = 1 /\ a.sampwidth = 2 THEN a
    ELSE [a EXCEPT !.framerate = 16000, !.nchannels = 1, !.sampwidth = 2,
                   !.by = "wave"]
SimpleAudioConversion(a) ==
    IF ~a.parse THEN a
    ELSE IF a.framerate = 16000 /\ a.nchannels = 1 /\ a.sampwidth = 2 THEN a
    ELSE [a EXCEPT !.framerate = 16000, !.nchannels = 1, !.sampwidth = 2,
                   !.by = "wave"]

\* what the converter run may do: ffmpeg exits 0, exits non-zero, exceeds its
\* 10 s, cannot be started, or the executor itself raises
ConvertOutcomes == {"ok", "nonzero", "timeout", "missing", "executor_error"}
\* ffmpeg exits 0 only on a payload it can decode
Feasible(a, o) == o = "ok" => a.media

\* ASRProvider._convert_audio_sync
ConvertAudioSync(a, o) ==
    CASE o = "ok" -> FfmpegOutput
      [] o = "nonzero" -> SimpleAudioConversion(a)
      [] o = "timeout" -> a
      [] OTHER -> SimpleAudioConversion(a)

\* ASRProvider._convert_audio
ConvertAudio(a, o) ==
    IF o = "executor_error" THEN a ELSE ConvertAudioSync(a, o)

\* ------------------------------- ASRProvider._convert_audio_sync, by steps
\* _convert_audio_sync(a) is called (by the executor)
ConvertSyncCall(p) ==
    /\ vq[p].pc = "idle" /\ ps[p].pc = "idle" /\ run[p].pc = "idle"
    /\ cv[p].pc = "idle"
    /\ \E a \in Audios : cv' = [cv EXCEPT ![p].pc = "create", ![p].audio = a]
    /\ UNCHANGED tokvars
    /\ UNCHANGED <<asr, llm, tts, ttsm, run, stats, vp, sr, ss, vq, ps, tw, hr>>

\* tempfile.NamedTemporaryFile(suffix='.wav', delete=False): the file is
\* created, or the call raises and the outer except returns
ConvertSyncCreate(p) ==
    /\ cv[p].pc = "create"
    /\ \E created \in BOOLEAN :
        cv' = [cv EXCEPT ![p] =
                 IF created THEN [cv[p] EXCEPT !.pc = "write", !.input = TRUE]
                 ELSE [cv[p] EXCEPT !.pc = "done", !.outcome = "no_tempfile",
                                    !.ret = SimpleAudioConversion(cv[p].audio)]]
    /\ UNCHANGED tokvars
    /\ UNCHANGED <<asr, llm, tts, ttsm, run, stats, vp, sr, ss, vq, ps, tw, hr>>

\* input_file.write(audio_data), before the inner try: the bytes are written,
\* or the write raises, the with block closes the file and the outer except
\* returns
ConvertSyncWrite(p) ==
    /\ cv[p].pc = "write"
    /\ \E written \in BOOLEAN :
        cv' = [cv EXCEPT ![p] =
                 IF written THEN [cv[p] EXCEPT !.pc = "run"]
                 ELSE [cv[p] EXCEPT !.pc = "done", !.outcome = "write_failed",
                                    !.ret = SimpleAudioConversion(cv[p].audio)]]
    /\ UNCHANGED tokvars
    /\ UNCHANGED <<asr, llm, tts, ttsm, run, stats, vp, sr, ss, vq, ps, tw, hr>>

\* subprocess.run(cmd, timeout=10) inside the inner try: what ffmpeg did and
\* whether it left an output file; exit 0 with no file makes open() raise
ConvertSyncRun(p) ==
    /\ cv[p].pc = "run"
    /\ \E o \in ConvertOutcomes \ {"executor_error"}, left \in BOOLEAN :
        /\ Feasible(cv[p].audio, o)
        /\ o = "missing" => ~left
        /\ cv' = [cv EXCEPT ![p] =
                     [cv[p] EXCEPT !.pc = "finally", !.output = left,
                                   !.outcome = IF o = "ok" /\ ~left THEN "unreadable"
                                               ELSE o]]
    /\ UNCHANGED tokvars
    /\ UNCHANGED <<asr, llm, tts, ttsm, run, stats, vp, sr, ss, vq, ps, tw, hr>>

\* the finally block: os.unlink(input_path), then os.unlink(output_path) if
\* it exists, any exception of either being passed over; then the return
ConvertSyncFinally(p) ==
    /\ cv[p].pc = "finally"
    /\ \E unlinked \in {"both", "input_only", "none"} :
        /\ unlinked = "input_only" => cv[p].output
        /\ cv' = [cv EXCEPT ![p] =
                     [cv[p] EXCEPT !.pc = "done",
                                   !.input = (unlinked = "none"),
                                   !.output = cv[p].output /\ unlinked # "both",
                                   !.ret = ConvertAudioSync(cv[p].audio, cv[p].outcome)]]
    /\ UNCHANGED tokvars
    /\ UNCHANGED <<asr, llm, tts, ttsm, run, stats, vp, sr, ss, vq, ps, tw, hr>>

\* ------------------------------------------- ASRProvider.speech_to_text
NoAsrAnswer == [kind |-> "none", http |-> 0, status |-> 0, result |-> PyNone]

\* a speech_to_text frame. token is the local variable, urltoken the token
\* written into url and headers before the loop; hist lists the HTTP status
\* of every answer (0: no answer, a timeout or a transport exception) and
\* last is the latest answer
AsrIdle ==
    [pc |-> "idle", session |-> PyNone, audio |-> Canonical, body |-> Canonical,
     token |-> None, urltoken |-> None, attempt |-> 0, reqs |-> 0,
     slept |-> <<>>, refreshes |-> 0, hist |-> <<>>,
     validated |-> FALSE, converted |-> FALSE, last |-> NoAsrAnswer,
     text |-> PyNone, error |-> PyNone]

\* the answers of the recognition endpoint to one request: an HTTP answer with
\* a JSON body {status, result?}, one whose body is no JSON ("nojson"), a
\* timeout, or another exception of the transport
AsrHttp == {200, 400, 408, 429, 500}
AsrResponses ==
    [kind : {"json"}, http : {200}, status : {AsrSuccess}, result : {"nihao", "", PyNone}]
    \cup [kind : {"json"}, http : {200}, status : AsrStatuses \ {AsrSuccess}, result : {PyNone}]
    \cup [kind : {"nojson"}, http : {200}, status : {0}, result : {PyNone}]
    \cup [kind : {"json"}, http : AsrHttp \ {200}, status : {0}, result : {PyNone}]
    \cup [kind : {"timeout", "error"}, http : {0}, status : {0}, result : {PyNone}]

\* if response.status == 408 or response.status >= 500
RetryAll4xx(http) == http >= 400
AsrRetryable(http) == http = 408 \/ http >= 500

\* if attempt < max_retries - 1
AsrHasNext(attempt) == attempt < max_retries - 1

\* session.post(url, data=prepared_audio, headers=headers, timeout=timeout)
AsrSend(f) == [f EXCEPT !.pc = "inflight", !.reqs = f.reqs + 1]

\* return text, error
AsrReturn(f, text, error) == [f EXCEPT !.pc = "ret", !.text = text, !.error = error]

\* await asyncio.sleep(d); continue
AsrSleep(f, d) == [f EXCEPT !.pc = "sleep", !.slept = Append(f.slept, d)]

\* the except branches, and the retryable HTTP statuses
AsrBackoff(f, error) ==
    IF AsrHasNext(f.attempt)
    THEN AsrSleep(f, Pow2(f.attempt))
    ELSE AsrReturn(f, PyNone, error)

\* if not token
TokenNeverMissing(tok) == FALSE
TokenMissing(tok) == tok = None

\* get_token has returned: the token test, the audio test, the first request
AsrGotToken(p) ==
    /\ asr[p].pc = "token"
    /\ gt[p].pc = "ret"
    /\ gt' = [gt EXCEPT ![p] = GtIdle]
    /\ LET tok == gt[p].ret
           f == [asr[p] EXCEPT !.token = tok] IN
       IF TokenMissing(tok)
       THEN asr' = [asr EXCEPT ![p] = AsrReturn(f, PyNone, "asr_token_failed")]
       ELSE LET g == [f EXCEPT !.validated = TRUE, !.urltoken = tok] IN
            IF ValidateAudioFormat(g.audio)
            THEN asr' = [asr EXCEPT ![p] = AsrSend(g)]
            ELSE asr' = [asr EXCEPT ![p] = [g EXCEPT !.pc = "convert", !.converted = TRUE]]
    /\ UNCHANGED <<now, token, expire_time, lock, lockq, tokReqs, first>>
    /\ UNCHANGED <<llm, tts, ttsm, run, stats>>
    /\ UNCHANGED callvars

\* _convert_audio has returned, the converter run having ended as o: the
\* first request
AsrConvertedAs(p, o) ==
    /\ asr[p].pc = "convert"
    /\ Feasible(asr[p].audio, o)
    /\ asr' = [asr EXCEPT ![p] =
                 AsrSend([asr[p] EXCEPT !.body = ConvertAudio(asr[p].audio, o)])]
    /\ UNCHANGED tokvars
    /\ UNCHANGED <<llm, tts, ttsm, run, stats>>
    /\ UNCHANGED callvars

\* _convert_audio has returned
AsrConverted(p) == \E o \in ConvertOutcomes : AsrConvertedAs(p, o)

\* the answer r to the request in flight
AsrAnswer(p, r) ==
    /\ asr[p].pc = "inflight"
    /\ LET f == [asr[p] EXCEPT !.hist = Append(asr[p].hist, r.http), !.last = r] IN
        IF r.kind = "json" /\ r.http = 200 /\ r.status = InvalidToken
        THEN \* self.token_manager.token = None; await get_token()
             /\ token' = None
             /\ gt' = [gt EXCEPT ![p] = [GtIdle EXCEPT !.pc = "enter"]]
             /\ asr' = [asr EXCEPT ![p] =
                          [f EXCEPT !.pc = "refresh", !.refreshes = f.refreshes + 1]]
             /\ UNCHANGED <<now, expire_time, lock, lockq, tokReqs, first>>
        ELSE /\ UNCHANGED tokvars
             /\ asr' = [asr EXCEPT ![p] =
                  CASE r.kind = "timeout" -> AsrBackoff(f, "asr_timeout")
                    [] r.kind \in {"error", "nojson"} -> AsrBackoff(f, "asr_exception")
                    [] r.http = 200 /\ r.status = AsrSuccess ->
                          IF Truthy(r.result)
                          THEN AsrReturn(f, r.result, PyNone)
                          ELSE AsrReturn(f, "", "asr_empty_result")
                    [] r.http = 200 -> AsrReturn(f, PyNone, "asr_failed")
                    [] AsrRetryable(r.http) -> AsrBackoff(f, "asr_http_error")
                    [] OTHER -> AsrReturn(f, PyNone, "asr_http_error")]
    /\ UNCHANGED <<llm, tts, ttsm, run, stats>>
    /\ UNCHANGED callvars

\* the answer to the request in flight
AsrResponse(p) == \E r \in AsrResponses : AsrAnswer(p, r)

\* the forced get_token has returned
AsrRefreshed(p) ==
    /\ asr[p].pc = "refresh"
    /\ gt[p].pc = "ret"
    /\ gt' = [gt EXCEPT ![p] = GtIdle]
    /\ LET f == [asr[p] EXCEPT !.token = gt[p].ret] IN
       asr' = [asr EXCEPT ![p] =
                 IF f.token # None /\ AsrHasNext(f.attempt)
                 THEN AsrSleep(f, 1)
                 ELSE AsrReturn(f, PyNone, "asr_failed")]
    /\ UNCHANGED <<now, token, expire_time, lock, lockq, tokReqs, first>>
    /\ UNCHANGED <<llm, tts, ttsm, run, stats>>
    /\ UNCHANGED callvars

\* a sleep is over: continue, the next iteration sends the request again
AsrSleepDone(p) ==
    /\ asr[p].pc = "sleep"
    /\ asr' = [asr EXCEPT ![p] = AsrSend([asr[p] EXCEPT !.attempt = asr[p].attempt + 1])]
    /\ UNCHANGED tokvars
    /\ UNCHANGED <<llm, tts, ttsm, run, stats>>
    /\ UNCHANGED callvars

\* --------------------------------------- AliBLProvider.generate_response
\* a text is the sequence of its words; these stand for the Chinese of the
\* source: LLM_REQUEST "LLM请求", FAIL "失败", EXCEPTION "异常", TIMEOUT "超时",
\* ERROR "错误"
NonStr == <<PyNone>>                                \* a reply that is no str
\* a reply of 101 characters whose last one is the failure marker
LongReply == [i \in 1..101 |-> IF i = 101 THEN "FAIL" ELSE "x"]
Replies ==
    {<<"ni", "hao">>, <<>>, <<" ">>, <<"bao", "qian", "FAIL">>, LongReply, NonStr}
LlmErrHttp == <<"LLM_REQUEST", "FAIL", ":", "HTTP">>      \* line 394
LlmErrTimeout == <<"LLM_REQUEST", "TIMEOUT">>             \* line 404
LlmErrException == <<"LLM_REQUEST", "EXCEPTION">>         \* line 411

LlmErrExhausted == <<"LLM_REQUEST", "FAIL", ",", "max_retries">>   \* line 419

\* a generate_response frame: messages is its argument, session the session
\* id its requests carry (the function takes none), last the kind and HTTP
\* status of the latest answer
NoLlmAnswer == [kind |-> "none", http |-> 0]
LlmIdle ==
    [pc |-> "idle", messages |-> <<>>, session |-> PyNone, attempt |-> 0,
     reqs |-> 0, slept |-> <<>>, ret |-> NonStr, last |-> NoLlmAnswer]

\* the answers of the generation endpoint: HTTP 200 with output.text, HTTP 200
\* without it ("nokey"), another status, a timeout, another exception
LlmResponses ==
    [kind : {"json"}, http : {200}, text : Replies]
    \cup [kind : {"nokey"}, http : {200}, text : {NonStr}]
    \cup [kind : {"json"}, http : {400, 429, 500}, text : {NonStr}]
    \cup [kind : {"timeout", "error"}, http : {0}, text : {NonStr}]

\* if response.status == 429 or response.status >= 500
LlmRetryable(http) == http = 429 \/ http >= 500

LlmSend(f) == [f EXCEPT !.pc = "inflight", !.reqs = f.reqs + 1]
LlmReturn(f, text) == [f EXCEPT !.pc = "ret", !.ret = text]
LlmBackoff(f, error) ==
    IF f.attempt < max_retries - 1
    THEN [f EXCEPT !.pc = "sleep", !.slept = Append(f.slept, Pow2(f.attempt))]
    ELSE LlmReturn(f, error)

\* the answer r to the request in flight
LlmAnswer(p, r) ==
    /\ llm[p].pc = "inflight"
    /\ LET f == [llm[p] EXCEPT !.last = [kind |-> r.kind, http |-> r.http]] IN
        llm' = [llm EXCEPT ![p] =
            CASE r.kind = "timeout" -> LlmBackoff(f, LlmErrTimeout)
              [] r.kind \in {"error", "nokey"} -> LlmBackoff(f, LlmErrException)
              [] r.http = 200 -> LlmReturn(f, r.text)
              [] LlmRetryable(r.http) -> LlmBackoff(f, LlmErrHttp)
              [] OTHER -> LlmReturn(f, LlmErrHttp)]
    /\ UNCHANGED tokvars
    /\ UNCHANGED <<asr, tts, ttsm, run, stats>>
    /\ UNCHANGED callvars

\* the answer to the request in flight
LlmResponse(p) == \E r \in LlmResponses : LlmAnswer(p, r)

LlmSleepDone(p) ==
    /\ llm[p].pc = "sleep"
    /\ llm' = [llm EXCEPT ![p] = LlmSend([llm[p] EXCEPT !.attempt = llm[p].attempt + 1])]
    /\ UNCHANGED tokvars
    /\ UNCHANGED <<asr, tts, ttsm, run, stats>>
    /\ UNCHANGED callvars

\* ------------------------------------------- TTSProvider.text_to_speech
\* audio bytes are modelled by their number
AudioLens == {0, 99, 100, 2000}
TtsTokenLife == 1800 - 60   \* self.token_expire = time.time() + 1800 - 60

\* a text_to_speech frame; last is the kind and HTTP status of the latest
\* answer of the synthesis endpoint, waited whether the call queued on the
\* token lock
NoTtsAnswer == [kind |-> "none", http |-> 0]
TtsIdle ==
    [pc |-> "idle", text |-> <<>>, session |-> PyNone, token |-> None,
     attempt |-> 0, reqs |-> 0, slept |-> <<>>, ret |-> 0, last |-> NoTtsAnswer,
     waited |-> FALSE]

\* waiters: the coroutines queued on self._lock, in their order
TtsmInit ==
    [token |-> None, token_expire |-> 0, lock |-> None, waiters |-> <<>>,
     tokReqs |-> 0]

\* the answers of the synthesis endpoint: HTTP 200 with audio bytes, another
\* status whose body mentions "token" or not, a timeout, another exception
TtsResponses ==
    [kind : {"http"}, http : {200}, len : AudioLens, mentions_token : {FALSE}]
    \cup [kind : {"http"}, http : {400, 500}, len : {0}, mentions_token : BOOLEAN]
    \cup [kind : {"timeout", "error"}, http : {0}, len : {0}, mentions_token : {FALSE}]

\* the answers of the token endpoint to get_tts_token
TtsTokenResponses == [kind : {"ok"}, id : TokenIds] \cup [kind : {"fail"}, id : {None}]

\* if not text or len(text.strip()) == 0
EmptyOnly(t) == t = <<>>
BlankText(t) == \A i \in 1..Len(t) : t[i] = " "

\* if self.token and time.time() < self.token_expire
TtsTokenValid == ttsm.token # None /\ now < ttsm.token_expire

TtsSend(f) == [f EXCEPT !.pc = "inflight", !.reqs = f.reqs + 1]
TtsReturn(f, audio) == [f EXCEPT !.pc = "ret", !.ret = audio]
TtsBackoff(f) ==
    IF f.attempt < max_retries - 1
    THEN [f EXCEPT !.pc = "sleep", !.slept = Append(f.slept, Pow2(f.attempt))]
    ELSE TtsReturn(f, 0)

\* leaving "async with self._lock": the first waiter, if any, gets the lock
KeepLock(m) == m
TtsRelease(m) ==
    IF m.waiters = <<>> THEN [m EXCEPT !.lock = None]
    ELSE [m EXCEPT !.lock = Head(m.waiters), !.waiters = Tail(m.waiters)]

\* text_to_speech up to its first await: the empty-text test, get_tts_token
\* up to its request, or the first synthesis request when a token is cached
TtsEnter(p, text, sid) ==
    LET f == [TtsIdle EXCEPT !.text = text, !.session = sid] IN
    IF BlankText(text)
    THEN /\ tts' = [tts EXCEPT ![p] = TtsReturn(f, 0)]
         /\ ttsm' = ttsm
    ELSE IF TtsTokenValid
    THEN /\ tts' = [tts EXCEPT ![p] = TtsSend([f EXCEPT !.token = ttsm.token])]
         /\ ttsm' = ttsm
    ELSE IF ttsm.lock = None /\ ttsm.waiters = <<>>
    THEN /\ tts' = [tts EXCEPT ![p] = [f EXCEPT !.pc = "tokinflight"]]
         /\ ttsm' = [ttsm EXCEPT !.lock = p, !.tokReqs = ttsm.tokReqs + 1]
    ELSE /\ tts' = [tts EXCEPT ![p] = [f EXCEPT !.pc = "tokwait", !.waited = TRUE]]
         /\ ttsm' = [ttsm EXCEPT !.waiters = Append(ttsm.waiters, p)]

\* the answer r of the token endpoint to get_tts_token: no retry
TtsTokenAnswer(p, r) ==
    /\ tts[p].pc = "tokinflight"
    /\ IF r.kind = "ok"
        THEN /\ ttsm' = TtsRelease([ttsm EXCEPT !.token = r.id,
                                                 !.token_expire = now + TtsTokenLife])
             /\ tts' = [tts EXCEPT ![p] = TtsSend([tts[p] EXCEPT !.token = r.id])]
        ELSE /\ ttsm' = TtsRelease(ttsm)
             /\ tts' = [tts EXCEPT ![p] = TtsReturn(tts[p], 0)]
    /\ UNCHANGED tokvars
    /\ UNCHANGED <<asr, llm, run, stats>>
    /\ UNCHANGED callvars

\* the answer of the token endpoint to get_tts_token
TtsTokenResponse(p) == \E r \in TtsTokenResponses : TtsTokenAnswer(p, r)

\* a waiter of get_tts_token is given the lock and tests the token again
\* (lines 493-495)
TtsTokenWake(p) ==
    /\ tts[p].pc = "tokwait"
    /\ ttsm.lock = p
    /\ IF TtsTokenValid
       THEN /\ tts' = [tts EXCEPT ![p] = TtsSend([tts[p] EXCEPT !.token = ttsm.token])]
            /\ ttsm' = TtsRelease(ttsm)
       ELSE /\ tts' = [tts EXCEPT ![p].pc = "tokinflight"]
            /\ ttsm' = [ttsm EXCEPT !.tokReqs = ttsm.tokReqs + 1]
    /\ UNCHANGED tokvars
    /\ UNCHANGED <<asr, llm, run, stats>>
    /\ UNCHANGED callvars

\* the answer r to the synthesis request in flight
TtsAnswer(p, r) ==
    /\ tts[p].pc = "inflight"
    /\ LET f == [tts[p] EXCEPT !.last = [kind |-> r.kind, http |-> r.http]] IN
        CASE r.kind \in {"timeout", "error"} ->
                /\ tts' = [tts EXCEPT ![p] = TtsBackoff(f)]
                /\ ttsm' = ttsm
          [] r.http = 200 ->
                /\ tts' = [tts EXCEPT ![p] = TtsReturn(f, r.len)]
                /\ ttsm' = ttsm
          [] r.mentions_token /\ f.attempt < max_retries - 1 ->
                \* self.token = None; await asyncio.sleep(1); continue
                /\ tts' = [tts EXCEPT ![p] =
                             [f EXCEPT !.pc = "sleep", !.slept = Append(f.slept, 1)]]
                /\ ttsm' = [ttsm EXCEPT !.token = None]
          [] OTHER ->
                /\ tts' = [tts EXCEPT ![p] = TtsReturn(f, 0)]
                /\ ttsm' = ttsm
    /\ UNCHANGED tokvars
    /\ UNCHANGED <<asr, llm, run, stats>>
    /\ UNCHANGED callvars

\* the answer to the synthesis request in flight
TtsResponse(p) == \E r \in TtsResponses : TtsAnswer(p, r)

TtsSleepDone(p) ==
    /\ tts[p].pc = "sleep"
    /\ tts' = [tts EXCEPT ![p] = TtsSend([tts[p] EXCEPT !.attempt = tts[p].attempt + 1])]
    /\ UNCHANGED tokvars
    /\ UNCHANGED <<asr, llm, ttsm, run, stats>>
    /\ UNCHANGED callvars

\* ------------------------------------------------ AliyunProcessor.process
MinAudio == 100             \* len(tts_audio) < 100
SniffLen == 100             \* llm_response[:100]

StartsWith(t, prefix) ==
    Len(t) >= Len(prefix) /\ SubSeq(t, 1, Len(prefix)) = prefix
Contains(t, w) == \E i \in 1..Len(t) : t[i] = w
Slice(t, n) == SubSeq(t, 1, IF Len(t) < n THEN Len(t) ELSE n)

\* the test of lines 723-729 on the generated reply
NoTimeoutPrefix(r) ==
    /\ r # NonStr
    /\ \/ StartsWith(r, <<"LLM_REQUEST", "FAIL">>)
       \/ StartsWith(r, <<"LLM_REQUEST", "EXCEPTION">>)
       \/ Contains(Slice(r, SniffLen), "FAIL")
       \/ Contains(Slice(r, SniffLen), "ERROR")
IsLlmFailure(r) ==
    /\ r # NonStr
    /\ \/ StartsWith(r, <<"LLM_REQUEST", "FAIL">>)
       \/ StartsWith(r, <<"LLM_REQUEST", "EXCEPTION">>)
       \/ StartsWith(r, <<"LLM_REQUEST", "TIMEOUT">>)
       \/ Contains(Slice(r, SniffLen), "FAIL")
       \/ Contains(Slice(r, SniffLen), "ERROR")

\* if error or not text
AsrAlwaysOk(text, error) == FALSE
AsrStageFailed(text, error) == error # PyNone \/ ~Truthy(text)

\* if not tts_audio or len(tts_audio) < 100
TtsAlwaysOk(audio) == FALSE
TtsStageFailed(audio) == audio = 0 \/ audio < MinAudio

StatsInit ==
    [asr_success |-> 0, asr_failed |-> 0, llm_success |-> 0, llm_failed |-> 0,
     tts_success |-> 0, tts_failed |-> 0, total_processed |-> 0]

\* the dict process returns: its keys and their values
NoResult ==
    [keys |-> {}, error |-> PyNone, text |-> PyNone, response |-> NonStr,
     audio |-> 0, session_id |-> PyNone]
Failure(msg) == [NoResult EXCEPT !.keys = {"error"}, !.error = msg]
Success(text, response, audio, sid) ==
    [keys |-> {"text", "response", "audio", "session_id"}, error |-> PyNone,
     text |-> text, response |-> response, audio |-> audio, session_id |-> sid]

\* the messages of lines 699-717
MaxHistory == 2         \* entries of a supplied chat_history
Message(role, content) == [role |-> role, content |-> content]
SystemPrompt == Message("system", "SYSTEM_PROMPT")
HistoryEntries ==
    {Message("user", "hi"), Message("assistant", "yes"),
     Message("system", "sys"), Message("user", "")}
\* chat_history: None, or a list of entries
NoHistory == [given |-> FALSE, entries |-> <<>>]
Histories ==
    {NoHistory}
    \cup {[given |-> TRUE, entries |-> h] :
            h \in UNION {[1..n -> HistoryEntries] : n \in 0..MaxHistory}}

\* msg.get("role") in ["user", "assistant"] and msg.get("content")
RoleOnly(msg) == msg.role \in {"user", "assistant"}
ValidEntry(msg) == msg.role \in {"user", "assistant"} /\ Truthy(msg.content)

\* [msg for msg in chat_history if ...]
RECURSIVE ValidHistory(_)
ValidHistory(h) ==
    IF h = <<>> THEN <<>>
    ELSE IF ValidEntry(Head(h)) THEN <<Head(h)>> \o ValidHistory(Tail(h))
    ELSE ValidHistory(Tail(h))

\* messages_for_llm
MessagesForLlm(history, text) ==
    <<SystemPrompt>>
    \o (IF history.given /\ history.entries # <<>>      \* if chat_history
        THEN ValidHistory(history.entries) ELSE <<>>)
    \o <<Message("user", text)>>

\* a process frame: its locals, the clients it has called so far, in order,
\* and the value it returned
RunIdle ==
    [pc |-> "idle", session_id |-> PyNone, chat_history |-> NoHistory, text |-> PyNone,
     error |-> PyNone, llm_response |-> NonStr, tts_audio |-> 0, calls |-> <<>>,
     result |-> NoResult]

Overwrite(st, k) == [st EXCEPT ![k] = 1]
Bump(st, k) == [st EXCEPT ![k] = st[k] + 1]

\* the frames of the other calls a coroutine can make
\* VoiceProcessor.text_to_speech: the bytes it got from the client (got) and
\* the pair (audio, error) it returned
NoAudio == -1               \* Python None where audio bytes are expected
VpIdle == [pc |-> "idle", text |-> <<>>, got |-> 0, audio |-> NoAudio, error |-> PyNone]

\* AliBLProvider.stream_response: the requests sent, the lines read from the
\* response (got), the fragments yielded (out) and how the generator ended
SrIdle == [pc |-> "idle", reqs |-> 0, got |-> <<>>, out |-> <<>>, end |-> "none"]

\* TTSProvider.stream_speech: the requests sent, the chunks read from the
\* response (got), the chunks yielded (out) and how the generator ended
SsIdle ==
    [pc |-> "idle", text |-> <<>>, token |-> None, reqs |-> 0, got |-> <<>>,
     out |-> <<>>, end |-> "none"]

\* VoiceProcessor.process_voice_query: the pair speech_to_text returned, the
\* calls made with their arguments, and the dict returned
NoVoiceResult ==
    [keys |-> {}, error |-> PyNone, recognized_text |-> PyNone, response |-> <<>>,
     audio_response |-> NoAudio]
VqIdle ==
    [pc |-> "idle", text |-> PyNone, error |-> PyNone, calls |-> <<>>,
     query |-> PyNone, reply |-> <<>>, spoken |-> <<>>, result |-> NoVoiceResult]
\* AliyunProcessor.process_streaming: the pair process_audio_stream returned
\* and the keys of the dict returned; the generator llm_stream is the
\* stream_response frame of the coroutine, a call of tts_stream its
\* stream_speech frame
PsIdle == [pc |-> "idle", session_id |-> PyNone, text |-> PyNone, error |-> PyNone,
           keys |-> {}]
\* ASRProvider._convert_audio_sync: whether the temporary input file and the
\* output file exist, what the converter did, and the bytes returned
CvIdle ==
    [pc |-> "idle", audio |-> Canonical, input |-> FALSE, output |-> FALSE,
     outcome |-> "none", ret |-> Canonical]
\* the answers the token endpoint has given so far, the k-th to the k-th
\* request of either token client, and the clock of the latest pair of calls
\* and what the two managers held when that pair of calls was made
NoCache == [token |-> None, expire_time |-> 0]
\* a handle_request frame: the session_id of line 965, and of the dict
\* returned its success and its session_id
HrIdle == [pc |-> "idle", session_id |-> PyNone, success |-> FALSE,
           returned |-> PyNone]
TwInit == [script |-> <<>>, called |-> -1, asr0 |-> NoCache, tts0 |-> NoCache]

\* a coroutine is in one call at a time
Free(p) ==
    /\ vq[p].pc = "idle"
    /\ ps[p].pc = "idle"
    /\ cv[p].pc = "idle"
    /\ run[p].pc = "idle"
    /\ vp[p].pc = "idle"
    /\ sr[p].pc = "idle"
    /\ ss[p].pc = "idle"

\* process(a), which draws the session id sid, up to the first await of
\* speech_to_text
ProcessEnter(p, sid, a) ==
    /\ Free(p)
    /\ run' = [run EXCEPT ![p] = [RunIdle EXCEPT !.pc = "asr", !.session_id = sid,
                                                 !.calls = <<"asr">>]]
    /\ asr' = [asr EXCEPT ![p] = [AsrIdle EXCEPT !.pc = "token", !.session = sid,
                                                 !.audio = a, !.body = a]]
    /\ stats' = Bump(stats, "total_processed")
    /\ gt' = [gt EXCEPT ![p] = [GtIdle EXCEPT !.pc = "enter"]]
    /\ UNCHANGED <<now, token, expire_time, lock, lockq, tokReqs, first>>
    /\ UNCHANGED <<llm, tts, ttsm>>
    /\ UNCHANGED <<vp, sr, ss, vq, ps, cv, tw>>

\* process(a) called by any caller but the HTTP handler
ProcessCall(p, sid, a) == ProcessEnter(p, sid, a) /\ hr' = hr

\* process is called
ProcessStart(p) == \E sid \in SessionIds, a \in Audios : ProcessCall(p, sid, a)

\* speech_to_text has returned: the recognition outcome, then the messages
\* and the first generation request, the chat_history being one of hs
ProcessAsrReturn(p, hs) ==
    /\ run[p].pc = "asr"
    /\ asr[p].pc = "ret"
    /\ LET text == asr[p].text
           error == asr[p].error
           f == [run[p] EXCEPT !.text = text, !.error = error] IN
       IF AsrStageFailed(text, error)
       THEN /\ stats' = Bump(stats, "asr_failed")
            /\ run' = [run EXCEPT ![p] =
                         [f EXCEPT !.pc = "done",
                                   !.result = Failure(IF error # PyNone THEN "asr_failed"
                                                      ELSE "asr_empty_result")]]
            /\ llm' = llm
       ELSE \* chat_history is first read here (line 709): its value is drawn here
            /\ stats' = Bump(stats, "asr_success")
            /\ \E h \in hs :
                /\ run' = [run EXCEPT ![p] =
                             [f EXCEPT !.pc = "llm", !.calls = Append(f.calls, "llm"),
                                       !.chat_history = h]]
                /\ llm' = [llm EXCEPT ![p] =
                             LlmSend([LlmIdle EXCEPT !.messages = MessagesForLlm(h, text)])]
    /\ asr' = [asr EXCEPT ![p] = AsrIdle]
    /\ UNCHANGED tokvars
    /\ UNCHANGED <<tts, ttsm>>
    /\ UNCHANGED callvars

\* speech_to_text has returned, for every chat_history
ProcessAsrDone(p) == ProcessAsrReturn(p, Histories)

\* generate_response has returned: the generation outcome, then
\* text_to_speech up to its first await
ProcessLlmDone(p) ==
    /\ run[p].pc = "llm"
    /\ llm[p].pc = "ret"
    /\ LET r == llm[p].ret
           \* chat_history is not read after line 709: the frame drops it
           f == [run[p] EXCEPT !.llm_response = r, !.chat_history = NoHistory] IN
       IF IsLlmFailure(r)
       THEN /\ stats' = Bump(stats, "llm_failed")
            /\ run' = [run EXCEPT ![p] =
                         [f EXCEPT !.pc = "done", !.result = Failure("llm_failed")]]
            /\ UNCHANGED <<tts, ttsm>>
       ELSE IF r = NonStr
       THEN \* len(llm_response) raises: except Exception
            /\ stats' = Bump(stats, "llm_success")
            /\ run' = [run EXCEPT ![p] =
                         [f EXCEPT !.pc = "done", !.result = Failure("exception")]]
            /\ UNCHANGED <<tts, ttsm>>
       ELSE /\ stats' = Bump(stats, "llm_success")
            /\ run' = [run EXCEPT ![p] =
                         [f EXCEPT !.pc = "tts", !.calls = Append(f.calls, "tts")]]
            /\ TtsEnter(p, r, f.session_id)
    /\ llm' = [llm EXCEPT ![p] = LlmIdle]
    /\ UNCHANGED tokvars
    /\ asr' = asr
    /\ UNCHANGED callvars

\* text_to_speech has returned: the synthesis outcome and the result
ProcessTtsDone(p) ==
    /\ run[p].pc = "tts"
    /\ tts[p].pc = "ret"
    /\ LET a == tts[p].ret
           f == [run[p] EXCEPT !.tts_audio = a] IN
       IF TtsStageFailed(a)
       THEN /\ stats' = Bump(stats, "tts_failed")
            /\ run' = [run EXCEPT ![p] =
                         [f EXCEPT !.pc = "done", !.result = Failure("tts_failed")]]
       ELSE /\ stats' = Bump(stats, "tts_success")
            /\ run' = [run EXCEPT ![p] =
                         [f EXCEPT !.pc = "done",
                                   !.result = Success(f.text, f.llm_response, a,
                                                      f.session_id)]]
    /\ tts' = [tts EXCEPT ![p] = TtsIdle]
    /\ UNCHANGED tokvars
    /\ UNCHANGED <<asr, llm, ttsm>>
    /\ UNCHANGED callvars

\* ------------------------------------------ VoiceProcessor.text_to_speech
\* the texts handed to the synthesis client by its other callers
Texts == {<<"ni", "hao">>, <<>>, <<" ">>}
CrmSessionIds == {"crm_a"}      \* f"crm_{uuid.uuid4().hex[:8]}"

\* if not audio_data or len(audio_data) < 100
VoiceEmptyOnly(audio) == audio = 0
VoiceTtsFailed(audio) == audio = 0 \/ audio < MinAudio

\* text_to_speech of the voice processor up to the first await of the client
VoiceTtsStart(p) ==
    /\ Free(p)
    /\ \E text \in Texts, sid \in CrmSessionIds :
        /\ vp' = [vp EXCEPT ![p] = [VpIdle EXCEPT !.pc = "tts", !.text = text]]
        /\ TtsEnter(p, text, sid)
    /\ UNCHANGED tokvars
    /\ UNCHANGED <<asr, llm, run, stats, sr, ss>>
    /\ UNCHANGED auxvars

\* the client has returned: the length test and the pair returned
VoiceTtsDone(p) ==
    /\ vp[p].pc = "tts"
    /\ tts[p].pc = "ret"
    /\ LET a == tts[p].ret
           f == [vp[p] EXCEPT !.pc = "done", !.got = a] IN
       vp' = [vp EXCEPT ![p] =
                IF VoiceTtsFailed(a)
                THEN [f EXCEPT !.audio = NoAudio, !.error = "tts_failed"]
                ELSE [f EXCEPT !.audio = a, !.error = PyNone]]
    /\ tts' = [tts EXCEPT ![p] = TtsIdle]
    /\ UNCHANGED tokvars
    /\ UNCHANGED <<asr, llm, ttsm, run, stats, sr, ss>>
    /\ UNCHANGED auxvars

\* --------------------------------------- VoiceProcessor.process_voice_query
\* result["response"] of ResponseEngine.process_query
ResponderReplies == Texts

\* if error or not text
VoiceNeverFailed(text, error) == FALSE
VoiceAsrFailed(text, error) == error # PyNone \/ ~Truthy(text)

\* process_voice_query(a, phone) up to the first await of the recognition
\* client, through VoiceProcessor.speech_to_text
VoiceQueryCall(p, sid, a) ==
    /\ Free(p)
    /\ vq' = [vq EXCEPT ![p] = [VqIdle EXCEPT !.pc = "asr", !.calls = <<"asr">>]]
    /\ asr' = [asr EXCEPT ![p] = [AsrIdle EXCEPT !.pc = "token", !.session = sid,
                                                 !.audio = a, !.body = a]]
    /\ gt' = [gt EXCEPT ![p] = [GtIdle EXCEPT !.pc = "enter"]]
    /\ UNCHANGED <<now, token, expire_time, lock, lockq, tokReqs, first>>
    /\ UNCHANGED <<llm, tts, ttsm, run, stats, vp, sr, ss, ps, cv, tw, hr>>

\* speech_to_text has returned: the error answer, or process_query on the
\* transcript, answering reply, and text_to_speech on its response up to the
\* first await of the synthesis client
VoiceQueryHeard(p, sid, reply) ==
    /\ vq[p].pc = "asr"
    /\ asr[p].pc = "ret"
    /\ LET text == asr[p].text
           error == asr[p].error
           f == [vq[p] EXCEPT !.text = text, !.error = error] IN
       IF VoiceAsrFailed(text, error)
       THEN /\ vq' = [vq EXCEPT ![p] =
                        [f EXCEPT !.pc = "done",
                                  !.result = [NoVoiceResult EXCEPT
                                      !.keys = {"error", "recognized_text", "response"},
                                      !.error = "asr_failed",
                                      !.recognized_text = "",
                                      !.response = <<"sorry">>]]]
            /\ UNCHANGED <<tts, ttsm>>
       ELSE LET g == [f EXCEPT !.calls = Append(f.calls, "responder"),
                               !.query = text, !.reply = reply]
                r == [NoVoiceResult EXCEPT
                         !.keys = {"response", "recognized_text", "channel"},
                         !.response = reply, !.recognized_text = text] IN
            IF reply # <<>>                     \* if result.get("response")
            THEN /\ vq' = [vq EXCEPT ![p] =
                             [g EXCEPT !.pc = "tts", !.calls = Append(g.calls, "tts"),
                                       !.spoken = reply, !.result = r]]
                 /\ TtsEnter(p, reply, sid)
            ELSE /\ vq' = [vq EXCEPT ![p] = [g EXCEPT !.pc = "done", !.result = r]]
                 /\ UNCHANGED <<tts, ttsm>>
    /\ asr' = [asr EXCEPT ![p] = AsrIdle]
    /\ UNCHANGED tokvars
    /\ UNCHANGED <<llm, run, stats, vp, sr, ss, ps, cv, tw, hr>>

\* the synthesis client has returned: audio_response and the dict returned
VoiceQueryTtsDone(p) ==
    /\ vq[p].pc = "tts"
    /\ tts[p].pc = "ret"
    /\ LET a == tts[p].ret
           r == vq[p].result IN
       vq' = [vq EXCEPT ![p] =
                [vq[p] EXCEPT !.pc = "done",
                              !.result = [r EXCEPT !.keys = r.keys \cup {"audio_response"},
                                                   !.audio_response =
                                                       IF VoiceTtsFailed(a) THEN NoAudio
                                                       ELSE a]]]
    /\ tts' = [tts EXCEPT ![p] = TtsIdle]
    /\ UNCHANGED tokvars
    /\ UNCHANGED <<asr, llm, ttsm, run, stats, vp, sr, ss, ps, cv, tw, hr>>

\* ------------------------------------------ AliBLProvider.stream_response
MaxLines == 3           \* lines read from one streamed response

\* a line of the response: whether it decodes as UTF-8, whether it starts
\* with "data:", what follows ("empty", "json" or "garbage"), and for JSON
\* whether it has output.text and which
SseLine(utf8, data, chunk, hasText, text) ==
    [utf8 |-> utf8, data |-> data, chunk |-> chunk, hasText |-> hasText, text |-> text]
SseLines ==
    {SseLine(TRUE, TRUE, "json", TRUE, "ni"),
     SseLine(TRUE, TRUE, "json", TRUE, "hao"),
     SseLine(TRUE, TRUE, "json", FALSE, ""),
     SseLine(TRUE, TRUE, "garbage", FALSE, ""),
     SseLine(TRUE, TRUE, "empty", FALSE, ""),
     SseLine(TRUE, FALSE, "empty", FALSE, ""),
     SseLine(FALSE, FALSE, "garbage", FALSE, "")}

\* lines 454-460: decode, startswith('data:'), non-empty chunk, json.loads,
\* "output" in chunk_data and "text" in chunk_data["output"]
Yields(l) ==
    IF ~l.utf8 THEN FALSE               \* UnicodeDecodeError, caught at 461
    ELSE IF ~l.data THEN FALSE
    ELSE IF l.chunk = "empty" THEN FALSE
    ELSE IF l.chunk # "json" THEN FALSE \* JSONDecodeError, caught at 461
    ELSE l.hasText

\* the answers to the request: an HTTP status, or an exception of the
\* request (a timeout included)
SrHeads == {200, 400, 500, 0}

\* the generator once the response has failed or was closed: it returns
Resend(f, how) == [f EXCEPT !.pc = "inflight", !.reqs = f.reqs + 1]
StreamOver(f, how) == [f EXCEPT !.pc = "done", !.end = how]

\* stream_response up to its request
StreamResponseOpen(p) ==
    /\ sr[p].pc = "idle"
    /\ sr' = [sr EXCEPT ![p] = [SrIdle EXCEPT !.pc = "inflight", !.reqs = 1]]
    /\ UNCHANGED tokvars
    /\ UNCHANGED <<asr, llm, tts, ttsm, run, stats, vp, ss>>
    /\ UNCHANGED auxvars

\* a coroutine iterates stream_response
StreamResponseStart(p) == Free(p) /\ StreamResponseOpen(p)

\* the answer to the request: its status
StreamResponseHead(p) ==
    /\ sr[p].pc = "inflight"
    /\ \E h \in SrHeads :
        sr' = [sr EXCEPT ![p] =
                 CASE h = 0 -> StreamOver(sr[p], "failed")
                   [] h # 200 -> StreamOver(sr[p], "status")
                   [] OTHER -> [sr[p] EXCEPT !.pc = "streaming"]]
    /\ UNCHANGED tokvars
    /\ UNCHANGED <<asr, llm, tts, ttsm, run, stats, vp, ss>>
    /\ UNCHANGED auxvars

\* one more line of the response
StreamResponseLine(p) ==
    /\ sr[p].pc = "streaming"
    /\ Len(sr[p].got) < MaxLines
    /\ \E l \in SseLines :
        sr' = [sr EXCEPT ![p] =
                 [sr[p] EXCEPT !.got = Append(sr[p].got, l),
                               !.out = IF Yields(l) THEN Append(sr[p].out, l.text)
                                       ELSE sr[p].out]]
    /\ UNCHANGED tokvars
    /\ UNCHANGED <<asr, llm, tts, ttsm, run, stats, vp, ss>>
    /\ UNCHANGED auxvars

\* the transport closes, or fails in the middle of the stream
StreamResponseEnd(p) ==
    /\ sr[p].pc = "streaming"
    /\ \E how \in {"closed", "failed"} :
        sr' = [sr EXCEPT ![p] = StreamOver(sr[p], how)]
    /\ UNCHANGED tokvars
    /\ UNCHANGED <<asr, llm, tts, ttsm, run, stats, vp, ss>>
    /\ UNCHANGED auxvars

\* ---------------------------------------------- TTSProvider.stream_speech
MaxChunks == 2          \* chunks read from one streamed response
ChunkLens == {0, 50}    \* len(chunk)

SsSend(f) == [f EXCEPT !.pc = "inflight", !.reqs = f.reqs + 1]
SsOver(f, how) == [f EXCEPT !.pc = "done", !.end = how]

\* stream_speech up to its first await: the empty-text test, get_tts_token up
\* to its request, or the synthesis request when a token is cached
StreamSpeechOpen(p, texts) ==
    /\ ss[p].pc = "idle"
    /\ \E text \in texts :
        LET f == [SsIdle EXCEPT !.text = text] IN
        IF BlankText(text)
        THEN /\ ss' = [ss EXCEPT ![p] = SsOver(f, "blank")]
             /\ ttsm' = ttsm
        ELSE IF TtsTokenValid
        THEN /\ ss' = [ss EXCEPT ![p] = SsSend([f EXCEPT !.token = ttsm.token])]
             /\ ttsm' = ttsm
        ELSE IF ttsm.lock = None /\ ttsm.waiters = <<>>
        THEN /\ ss' = [ss EXCEPT ![p] = [f EXCEPT !.pc = "tokinflight"]]
             /\ ttsm' = [ttsm EXCEPT !.lock = p, !.tokReqs = ttsm.tokReqs + 1]
        ELSE /\ ss' = [ss EXCEPT ![p] = [f EXCEPT !.pc = "tokwait"]]
             /\ ttsm' = [ttsm EXCEPT !.waiters = Append(ttsm.waiters, p)]
    /\ UNCHANGED tokvars
    /\ UNCHANGED <<asr, llm, tts, run, stats, vp, sr>>
    /\ UNCHANGED auxvars

\* a coroutine iterates stream_speech
StreamSpeechStart(p) == Free(p) /\ StreamSpeechOpen(p, Texts)

\* the answer of the token endpoint to get_tts_token, then the request
StreamSpeechToken(p) ==
    /\ ss[p].pc = "tokinflight"
    /\ \E r \in TtsTokenResponses :
        IF r.kind = "ok"
        THEN /\ ttsm' = TtsRelease([ttsm EXCEPT !.token = r.id,
                                                 !.token_expire = now + TtsTokenLife])
             /\ ss' = [ss EXCEPT ![p] = SsSend([ss[p] EXCEPT !.token = r.id])]
        ELSE /\ ttsm' = TtsRelease(ttsm)
             /\ ss' = [ss EXCEPT ![p] = SsOver(ss[p], "notoken")]
    /\ UNCHANGED tokvars
    /\ UNCHANGED <<asr, llm, tts, run, stats, vp, sr>>
    /\ UNCHANGED auxvars

\* the answer to the synthesis request: its status
StreamSpeechHead(p) ==
    /\ ss[p].pc = "inflight"
    /\ \E h \in SrHeads :
        ss' = [ss EXCEPT ![p] =
                 CASE h = 0 -> SsOver(ss[p], "failed")
                   [] h # 200 -> SsOver(ss[p], "status")
                   [] OTHER -> [ss[p] EXCEPT !.pc = "streaming"]]
    /\ UNCHANGED tokvars
    /\ UNCHANGED <<asr, llm, tts, ttsm, run, stats, vp, sr>>
    /\ UNCHANGED auxvars

\* one more chunk of response.content.iter_any(): if chunk: yield chunk
StreamSpeechChunk(p) ==
    /\ ss[p].pc = "streaming"
    /\ Len(ss[p].got) < MaxChunks
    /\ \E n \in ChunkLens :
        ss' = [ss EXCEPT ![p] =
                 [ss[p] EXCEPT !.got = Append(ss[p].got, n),
                               !.out = IF n # 0 THEN Append(ss[p].out, n)
                                       ELSE ss[p].out]]
    /\ UNCHANGED tokvars
    /\ UNCHANGED <<asr, llm, tts, ttsm, run, stats, vp, sr>>
    /\ UNCHANGED auxvars

\* the transport closes, or fails in the middle of the stream
StreamSpeechEnd(p) ==
    /\ ss[p].pc = "streaming"
    /\ \E how \in {"closed", "failed"} :
        ss' = [ss EXCEPT ![p] = SsOver(ss[p], how)]
    /\ UNCHANGED tokvars
    /\ UNCHANGED <<asr, llm, tts, ttsm, run, stats, vp, sr>>
    /\ UNCHANGED auxvars

PipeInit ==
    /\ vq = [p \in Procs |-> VqIdle]
    /\ ps = [p \in Procs |-> PsIdle]
    /\ cv = [p \in Procs |-> CvIdle]
    /\ tw = TwInit
    /\ hr = [p \in Procs |-> HrIdle]
    /\ vp = [p \in Procs |-> VpIdle]
    /\ sr = [p \in Procs |-> SrIdle]
    /\ ss = [p \in Procs |-> SsIdle]
    /\ asr = [p \in Procs |-> AsrIdle]
    /\ llm = [p \in Procs |-> LlmIdle]
    /\ tts = [p \in Procs |-> TtsIdle]
    /\ ttsm = TtsmInit
    /\ run = [p \in Procs |-> RunIdle]
    /\ stats = StatsInit

Init == TokInit /\ PipeInit

\* the get_token steps of a coroutine that runs the pipeline
GetTokenStep(p) ==
    /\ \/ GtEnter(p)
       \/ GtWake(p)
       \/ GtResponse(p)
       \/ GtSleepDone(p)
    /\ UNCHANGED pipevars

Next ==
    \/ \E p \in PipeProcs : ProcessStart(p)
    \/ \E p \in PipeProcs : GetTokenStep(p)
    \/ \E p \in PipeProcs : AsrGotToken(p)
    \/ \E p \in PipeProcs : AsrConverted(p)
    \/ \E p \in PipeProcs : AsrResponse(p)
    \/ \E p \in PipeProcs : AsrRefreshed(p)
    \/ \E p \in PipeProcs : AsrSleepDone(p)
    \/ \E p \in PipeProcs : ProcessAsrDone(p)
    \/ \E p \in PipeProcs : LlmResponse(p)
    \/ \E p \in PipeProcs : LlmSleepDone(p)
    \/ \E p \in PipeProcs : ProcessLlmDone(p)
    \/ \E p \in PipeProcs : TtsTokenResponse(p)
    \/ \E p \in PipeProcs : TtsResponse(p)
    \/ \E p \in PipeProcs : TtsSleepDone(p)
    \/ \E p \in PipeProcs : ProcessTtsDone(p)
    \/ \E p \in PipeProcs : VoiceTtsStart(p)
    \/ \E p \in PipeProcs : VoiceTtsDone(p)
    \/ \E p \in PipeProcs : StreamResponseStart(p)
    \/ \E p \in PipeProcs : StreamResponseHead(p)
    \/ \E p \in PipeProcs : StreamResponseLine(p)
    \/ \E p \in PipeProcs : StreamResponseEnd(p)
    \/ \E p \in PipeProcs : StreamSpeechStart(p)
    \/ \E p \in PipeProcs : StreamSpeechToken(p)
    \/ \E p \in PipeProcs : StreamSpeechHead(p)
    \/ \E p \in PipeProcs : StreamSpeechChunk(p)
    \/ \E p \in PipeProcs : StreamSpeechEnd(p)

Spec == Init /\ [][Next]_vars



\* ------------------------------------------------------- the token manager
\* alone: NumCallers coroutines call get_token, each once, at any time
TokNext ==
    \/ Tick /\ UNCHANGED pipevars
    \/ \E c \in Procs : TokCall(c) /\ UNCHANGED pipevars
    \/ \E c \in Procs : GtEnter(c) /\ UNCHANGED pipevars
    \/ \E c \in Procs : GtWake(c) /\ UNCHANGED pipevars
    \/ \E c \in Procs : GtFirstResponse(c) /\ UNCHANGED pipevars
    \/ \E c \in Procs : GtSleepDone(c) /\ UNCHANGED pipevars

SpecTok == Init /\ [][TokNext]_vars

\* --------------------------------------- AliyunProcessor.process_streaming
\* f"stream_{uuid.uuid4().hex[:8]}", or the session_id given
StreamSessionIds == {"stream_a"}

\* process_streaming(chunks) up to the first await of the recognition client,
\* through process_audio_stream: no chunk at all (given is FALSE), or the
\* chunks, joined to the payload a, handed to speech_to_text
StreamingCall(p, sid, given, a) ==
    /\ Free(p)
    /\ IF ~given
       THEN \* if not audio_chunks: return "", "empty"
            /\ ps' = [ps EXCEPT ![p] =
                        [PsIdle EXCEPT !.pc = "done", !.session_id = sid, !.text = "",
                                       !.error = "asr_no_audio", !.keys = {"error"}]]
            /\ UNCHANGED <<asr, gt>>
       ELSE /\ ps' = [ps EXCEPT ![p] = [PsIdle EXCEPT !.pc = "asr", !.session_id = sid]]
            /\ asr' = [asr EXCEPT ![p] =
                         [AsrIdle EXCEPT !.pc = "token", !.session = sid,
                                         !.audio = a, !.body = a]]
            /\ gt' = [gt EXCEPT ![p] = [GtIdle EXCEPT !.pc = "enter"]]
    /\ UNCHANGED <<now, token, expire_time, lock, lockq, tokReqs, first>>
    /\ UNCHANGED <<llm, tts, ttsm, run, stats, vp, sr, ss, vq, cv, tw, hr>>

\* process_audio_stream has returned: the error dict, or the dict of the
\* transcript, the generator llm_stream() and the function tts_stream
StreamingAsrDone(p) ==
    /\ ps[p].pc = "asr"
    /\ asr[p].pc = "ret"
    /\ LET text == asr[p].text
           error == asr[p].error
           f == [ps[p] EXCEPT !.text = text, !.error = error] IN
       ps' = [ps EXCEPT ![p] =
                IF AsrStageFailed(text, error)
                THEN [f EXCEPT !.pc = "done", !.keys = {"error"}]
                ELSE [f EXCEPT !.pc = "returned",
                               !.keys = {"text", "llm_stream", "tts_stream"}]]
    /\ asr' = [asr EXCEPT ![p] = AsrIdle]
    /\ UNCHANGED tokvars
    /\ UNCHANGED <<llm, tts, ttsm, run, stats, vp, sr, ss, vq, cv, tw, hr>>

\* the caller starts to iterate result["llm_stream"]
CallerIterLlm(p) ==
    /\ ps[p].pc = "returned"
    /\ StreamResponseOpen(p)

\* the caller calls result["tts_stream"](llm_text) with a text of its own
\* choice and starts to iterate it
CallerIterTts(p) ==
    /\ ps[p].pc = "returned"
    /\ StreamSpeechOpen(p, Texts)

\* one coroutine calls process_streaming and uses what it returns; the token
\* endpoint answers well or refuses, the recognition endpoint answers with a
\* transcript or refuses
StreamTokenAnswers ==
    {[kind |-> "ok", id |-> 1, expire |-> Absent],
     [kind |-> "http", id |-> None, expire |-> Absent]}
StreamAsrAnswers ==
    {[kind |-> "json", http |-> 200, status |-> AsrSuccess, result |-> "nihao"],
     [kind |-> "json", http |-> 400, status |-> 0, result |-> PyNone]}

StreamingStart(p) ==
    \E sid \in StreamSessionIds, given \in BOOLEAN : StreamingCall(p, sid, given, Canonical)
StreamingGetToken(p) ==
    /\ \/ GtEnter(p)
       \/ (\E r \in StreamTokenAnswers : GtAnswer(p, r)) /\ UNCHANGED first
    /\ UNCHANGED pipevars

StreamingNext ==
    \/ \E p \in PipeProcs : StreamingStart(p)
    \/ \E p \in PipeProcs : StreamingGetToken(p)
    \/ \E p \in PipeProcs : AsrGotToken(p)
    \/ \E p \in PipeProcs, r \in StreamAsrAnswers : AsrAnswer(p, r)
    \/ \E p \in PipeProcs : StreamingAsrDone(p)
    \/ \E p \in PipeProcs : CallerIterLlm(p)
    \/ \E p \in PipeProcs : StreamResponseHead(p)
    \/ \E p \in PipeProcs : StreamResponseLine(p)
    \/ \E p \in PipeProcs : StreamResponseEnd(p)
    \/ \E p \in PipeProcs : CallerIterTts(p)
    \/ \E p \in PipeProcs : StreamSpeechToken(p)
    \/ \E p \in PipeProcs : StreamSpeechHead(p)
    \/ \E p \in PipeProcs : StreamSpeechChunk(p)
    \/ \E p \in PipeProcs : StreamSpeechEnd(p)

SpecStreaming == Init /\ [][StreamingNext]_vars

\* ------------------------------------------- the two token clients as twins
\* one coroutine calls AccessToken.get_token and TTSProvider.get_tts_token
\* (through text_to_speech) at the same clock values, once per value; the
\* token endpoint gives the k-th request of each the same k-th answer
TwinAnswers ==
    {[kind |-> "ok", id |-> 1, expire |-> 90],
     [kind |-> "ok", id |-> 2, expire |-> Absent],
     [kind |-> "http", id |-> None, expire |-> Absent],
     BadExpire(2)}
Twin == 1

\* get_tts_token reads Token.Id only: an answer whose ExpireTime is no number
\* is a token to it
ForTts(r) == IF r.kind = "badexpire" THEN [r EXCEPT !.kind = "ok"] ELSE r

\* both calls are made
TwinCall ==
    /\ Free(Twin) /\ vp[Twin].pc = "idle"
    /\ gt[Twin].pc = "idle" /\ tts[Twin].pc = "idle"
    /\ tw.called # now
    /\ gt' = [gt EXCEPT ![Twin].pc = "enter"]
    /\ \E sid \in CrmSessionIds : TtsEnter(Twin, <<"ni", "hao">>, sid)
    /\ tw' = [tw EXCEPT !.called = now,
                         !.asr0 = [token |-> token, expire_time |-> expire_time],
                         !.tts0 = [token |-> ttsm.token,
                                   expire_time |-> ttsm.token_expire]]
    /\ UNCHANGED <<now, token, expire_time, lock, lockq, tokReqs, first>>
    /\ UNCHANGED <<asr, llm, run, stats, vp, sr, ss, vq, ps, cv, hr>>

TwinGtEnter == GtEnter(Twin) /\ UNCHANGED pipevars

\* the token endpoint answers a request that is further than its answers so far
TwinServe ==
    /\ \/ gt[Twin].pc = "inflight" /\ tokReqs > Len(tw.script)
       \/ tts[Twin].pc = "tokinflight" /\ ttsm.tokReqs > Len(tw.script)
    /\ \E r \in TwinAnswers : tw' = [tw EXCEPT !.script = Append(tw.script, r)]
    /\ UNCHANGED tokvars
    /\ UNCHANGED <<asr, llm, tts, ttsm, run, stats, vp, sr, ss, vq, ps, cv, hr>>

\* get_token receives the answer to its request
TwinGtAnswer ==
    /\ tokReqs <= Len(tw.script)
    /\ GtAnswer(Twin, tw.script[tokReqs])
    /\ UNCHANGED first
    /\ UNCHANGED pipevars

\* get_tts_token receives the answer to its request
TwinTtsAnswer ==
    /\ ttsm.tokReqs <= Len(tw.script)
    /\ TtsTokenAnswer(Twin, ForTts(tw.script[ttsm.tokReqs]))

\* both calls have returned
TwinReturned == gt[Twin].pc = "ret" /\ tts[Twin].pc \in {"inflight", "ret"}

\* the coroutine goes on
TwinDone ==
    /\ TwinReturned
    /\ gt' = [gt EXCEPT ![Twin] = GtIdle]
    /\ tts' = [tts EXCEPT ![Twin] = TtsIdle]
    /\ UNCHANGED <<now, token, expire_time, lock, lockq, tokReqs, first>>
    /\ UNCHANGED <<asr, llm, ttsm, run, stats>>
    /\ UNCHANGED callvars

\* time passes between calls
TwinTick ==
    /\ gt[Twin].pc = "idle" /\ tts[Twin].pc = "idle"
    /\ Tick
    /\ UNCHANGED pipevars

TwinNext ==
    \/ TwinCall
    \/ TwinGtEnter
    \/ TwinServe
    \/ TwinGtAnswer
    \/ TwinTtsAnswer
    \/ TwinDone
    \/ TwinTick

SpecTwin == Init /\ [][TwinNext]_vars

\* --------------------------------------- HTTPVoiceHandler.handle_request
\* the session_id of the request, and f"http_{uuid.uuid4().hex[:8]}"
RequestSessionIds == {"req_a"}
HttpSessionIds == {"http_a"}

\* request_data.get("session_id", f"http_{...}")
HandlerSessionId(req, generated) == IF req = PyNone THEN generated ELSE req

\* handle_request(request_data, audio_data) up to its first await: without
\* audio the failure is returned at once; with audio process_audio is
\* entered, which calls process(audio_data), and process draws its own
\* session id sid, up to the first await of speech_to_text
HandleRequest(p, req, generated, has_audio, sid, a) ==
    /\ hr[p].pc = "idle"
    /\ LET f == [HrIdle EXCEPT !.session_id = HandlerSessionId(req, generated)] IN
       IF ~has_audio
       THEN /\ Free(p)
            /\ hr' = [hr EXCEPT ![p] = [f EXCEPT !.pc = "done"]]
            /\ UNCHANGED tokvars
            /\ UNCHANGED <<asr, llm, tts, ttsm, run, stats, vp, sr, ss, vq, ps, cv, tw>>
       ELSE /\ ProcessEnter(p, sid, a)
            /\ hr' = [hr EXCEPT ![p] = [f EXCEPT !.pc = "process"]]

\* process has returned, and process_audio with it: the dict returned
HandleReturn(p) ==
    /\ hr[p].pc = "process"
    /\ run[p].pc = "done"
    /\ hr' = [hr EXCEPT ![p] =
                IF "error" \in run[p].result.keys
                THEN [hr[p] EXCEPT !.pc = "done"]
                ELSE [hr[p] EXCEPT !.pc = "done", !.success = TRUE,
                                   !.returned = hr[p].session_id]]
    /\ UNCHANGED tokvars
    /\ UNCHANGED <<asr, llm, tts, ttsm, run, stats, vp, sr, ss, vq, ps, cv, tw>>

\* ----------------------------------------------- the conversion by steps
ConvNext ==
    \/ \E p \in PipeProcs : ConvertSyncCall(p)
    \/ \E p \in PipeProcs : ConvertSyncCreate(p)
    \/ \E p \in PipeProcs : ConvertSyncWrite(p)
    \/ \E p \in PipeProcs : ConvertSyncRun(p)
    \/ \E p \in PipeProcs : ConvertSyncFinally(p)

SpecConv == Init /\ [][ConvNext]_vars

\* ----------------------------------------------------- one voice query
\* one coroutine calls process_voice_query; the audio needs no conversion, the
\* token endpoint answers well or refuses, the recognition endpoint answers
\* with a transcript, an empty one or a timeout
VoiceTokenAnswers ==
    {[kind |-> "ok", id |-> 1, expire |-> Absent],
     [kind |-> "http", id |-> None, expire |-> Absent]}
VoiceAsrAnswers ==
    {[kind |-> "json", http |-> 200, status |-> AsrSuccess, result |-> "nihao"],
     [kind |-> "json", http |-> 200, status |-> AsrSuccess, result |-> ""],
     [kind |-> "timeout", http |-> 0, status |-> 0, result |-> PyNone]}

VoiceQueryStart(p) == \E sid \in CrmSessionIds : VoiceQueryCall(p, sid, Canonical)
VoiceGetToken(p) ==
    /\ \/ GtEnter(p)
       \/ (\E r \in VoiceTokenAnswers : GtAnswer(p, r)) /\ UNCHANGED first
    /\ UNCHANGED pipevars
VoiceQueryAsrDone(p) ==
    \E sid \in CrmSessionIds, reply \in ResponderReplies : VoiceQueryHeard(p, sid, reply)

VoiceNext ==
    \/ \E p \in PipeProcs : VoiceQueryStart(p)
    \/ \E p \in PipeProcs : VoiceGetToken(p)
    \/ \E p \in PipeProcs : AsrGotToken(p)
    \/ \E p \in PipeProcs, r \in VoiceAsrAnswers : AsrAnswer(p, r)
    \/ \E p \in PipeProcs : AsrSleepDone(p)
    \/ \E p \in PipeProcs : VoiceQueryAsrDone(p)
    \/ \E p \in PipeProcs : TtsTokenResponse(p)
    \/ \E p \in PipeProcs : TtsResponse(p)
    \/ \E p \in PipeProcs : TtsSleepDone(p)
    \/ \E p \in PipeProcs : VoiceQueryTtsDone(p)

SpecVoice == Init /\ [][VoiceNext]_vars

\* ------------------------------------------- concurrent process invocations
\* every coroutine calls process once, at any time, on one AliyunProcessor;
\* the token, generation and synthesis endpoints answer well or time out, the
\* recognition endpoint answers well or refuses, and the audio is one the
\* converter, which succeeds or times out, has to resample
ConcAudio == Wav(8000, 1, 2, "input")
ConcConvertOutcomes == {"ok", "timeout"}
ConcTokenAnswers ==
    {[kind |-> "ok", id |-> 1, expire |-> Absent],
     [kind |-> "timeout", id |-> None, expire |-> Absent]}
ConcAsrAnswers ==
    {[kind |-> "json", http |-> 200, status |-> AsrSuccess, result |-> "nihao"],
     [kind |-> "json", http |-> 400, status |-> 0, result |-> PyNone]}
ConcLlmAnswers ==
    {[kind |-> "json", http |-> 200, text |-> <<"ni", "hao">>],
     [kind |-> "timeout", http |-> 0, text |-> NonStr]}
ConcTtsTokenAnswers == {[kind |-> "ok", id |-> 1], [kind |-> "fail", id |-> None]}
ConcTtsAnswers ==
    {[kind |-> "http", http |-> 200, len |-> 2000, mentions_token |-> FALSE],
     [kind |-> "timeout", http |-> 0, len |-> 0, mentions_token |-> FALSE]}

ConcStart(p) == \E sid \in SessionIds : ProcessCall(p, sid, ConcAudio)
ConcGetToken(p) ==
    /\ \/ GtEnter(p)
       \/ GtWake(p)
       \/ GtSleepDone(p)
       \/ (\E r \in ConcTokenAnswers : GtAnswer(p, r)) /\ UNCHANGED first
    /\ UNCHANGED pipevars
ConcAsr(p) ==
    \/ AsrGotToken(p)
    \/ \E o \in ConcConvertOutcomes : AsrConvertedAs(p, o)
    \/ \E r \in ConcAsrAnswers : AsrAnswer(p, r)
ConcLlm(p) ==
    \/ \E r \in ConcLlmAnswers : LlmAnswer(p, r)
    \/ LlmSleepDone(p)
ConcTts(p) ==
    \/ \E r \in ConcTtsTokenAnswers : TtsTokenAnswer(p, r)
    \/ TtsTokenWake(p)
    \/ \E r \in ConcTtsAnswers : TtsAnswer(p, r)
    \/ TtsSleepDone(p)
ConcStage(p) ==
    \/ ProcessAsrReturn(p, {NoHistory})
    \/ ProcessLlmDone(p)
    \/ ProcessTtsDone(p)

\* the steps of an invocation that coroutine p has started
ConcRun(p) ==
    ConcGetToken(p) \/ ConcAsr(p) \/ ConcLlm(p) \/ ConcTts(p) \/ ConcStage(p)

ConcNext ==
    \/ \E p \in Procs : ConcStart(p)
    \/ \E p \in Procs : ConcGetToken(p)
    \/ \E p \in Procs : ConcAsr(p)
    \/ \E p \in Procs : ConcLlm(p)
    \/ \E p \in Procs : ConcTts(p)
    \/ \E p \in Procs : ConcStage(p)

SpecConc == Init /\ [][ConcNext]_vars

\* ------------------------------------------------------- one HTTP request
\* one HTTP request: the caller gives a session id or none, audio or none;
\* the audio needs no conversion and every endpoint answers well or fails
HttpStart(p) ==
    \E req \in RequestSessionIds \cup {PyNone}, generated \in HttpSessionIds,
       has_audio \in BOOLEAN, sid \in SessionIds :
        HandleRequest(p, req, generated, has_audio, sid, Canonical)

HttpNext ==
    \/ \E p \in PipeProcs : HttpStart(p)
    \/ \E p \in PipeProcs : VoiceGetToken(p)
    \/ \E p \in PipeProcs : AsrGotToken(p)
    \/ \E p \in PipeProcs, r \in VoiceAsrAnswers : AsrAnswer(p, r)
    \/ \E p \in PipeProcs : AsrSleepDone(p)
    \/ \E p \in PipeProcs : ProcessAsrReturn(p, {NoHistory})
    \/ \E p \in PipeProcs : ConcLlm(p)
    \/ \E p \in PipeProcs, r \in ConcTtsTokenAnswers : TtsTokenAnswer(p, r)
    \/ \E p \in PipeProcs, r \in ConcTtsAnswers : TtsAnswer(p, r)
    \/ \E p \in PipeProcs : TtsSleepDone(p)
    \/ \E p \in PipeProcs : ProcessLlmDone(p)
    \/ \E p \in PipeProcs : ProcessTtsDone(p)
    \/ \E p \in PipeProcs : HandleReturn(p)

SpecHttp == Init /\ [][HttpNext]_vars

\* ------------------------------------------- concurrent token invalidations
\* every coroutine makes one call on the one VoiceProcessor, at any time: a
\* voice query, with audio that needs no conversion, or text_to_speech; the
\* recognition token endpoint gives one of two tokens, the synthesis token
\* endpoint a token or a failure, the recognition endpoint rejects the token
\* or hears nothing, and the synthesis endpoint answers well or with an error
\* that mentions the token
InvalTokenAnswers ==
    {[kind |-> "ok", id |-> 1, expire |-> Absent],
     [kind |-> "ok", id |-> 2, expire |-> Absent]}
InvalAsrAnswers ==
    {[kind |-> "json", http |-> 200, status |-> AsrSuccess, result |-> ""],
     [kind |-> "json", http |-> 200, status |-> InvalidToken, result |-> PyNone]}
InvalTtsAnswers ==
    {[kind |-> "http", http |-> 200, len |-> 2000, mentions_token |-> FALSE],
     [kind |-> "http", http |-> 400, len |-> 0, mentions_token |-> TRUE]}

InvalGetToken(p) ==
    /\ \/ GtEnter(p)
       \/ GtWake(p)
       \/ (\E r \in InvalTokenAnswers : GtAnswer(p, r)) /\ UNCHANGED first
    /\ UNCHANGED pipevars
InvalAsr(p) ==
    \/ AsrGotToken(p)
    \/ \E r \in InvalAsrAnswers : AsrAnswer(p, r)
    \/ AsrRefreshed(p)
    \/ AsrSleepDone(p)
InvalTts(p) ==
    \/ \E r \in ConcTtsTokenAnswers : TtsTokenAnswer(p, r)
    \/ TtsTokenWake(p)
    \/ \E r \in InvalTtsAnswers : TtsAnswer(p, r)
    \/ TtsSleepDone(p)

InvalNext ==
    \/ \E p \in Procs : VoiceQueryStart(p)
    \/ \E p \in Procs : VoiceTtsStart(p)
    \/ \E p \in Procs : InvalGetToken(p)
    \/ \E p \in Procs : InvalAsr(p)
    \/ \E p \in Procs : VoiceQueryAsrDone(p)
    \/ \E p \in Procs : InvalTts(p)
    \/ \E p \in Procs : VoiceTtsDone(p)

SpecInval == Init /\ [][InvalNext]_vars

\* the same calls with a token endpoint that always gives the same token: the
\* locks of the two token managers under contention and invalidation
LockTokenAnswers == {[kind |-> "ok", id |-> 1, expire |-> Absent]}
LockGetToken(p) ==
    /\ \/ GtEnter(p)
       \/ GtWake(p)
       \/ (\E r \in LockTokenAnswers : GtAnswer(p, r)) /\ UNCHANGED first
    /\ UNCHANGED pipevars

LockNext ==
    \/ \E p \in Procs : VoiceQueryStart(p)
    \/ \E p \in Procs : VoiceTtsStart(p)
    \/ \E p \in Procs : LockGetToken(p)
    \/ \E p \in Procs : InvalAsr(p)
    \/ \E p \in Procs : VoiceQueryAsrDone(p)
    \/ \E p \in Procs : InvalTts(p)
    \/ \E p \in Procs : VoiceTtsDone(p)

SpecLock == Init /\ [][LockNext]_vars

\* the event loop runs every coroutine that can run, and every request and
\* every sleep comes to an end
SpecConcFair == SpecConc /\ \A p \in Procs : WF_vars(ConcRun(p))

\* ================================================================== claims

\* every get_token call that was made has returned
AllReturned == \A c \in Procs : gt[c].pc \in {"idle", "ret"}
Returned == {c \in Procs : gt[c].pc = "ret"}
\* the calls made are concurrent and started while no valid token was cached:
\* each entered before the token endpoint had answered anything
AllConcurrent == \A c \in Returned : gt[c].early

C4_Test(c) ==
    LET fresh == token # None /\ gt'[c].cur < expire_time - RefreshMargin
        fromCache == /\ gt'[c].pc = "ret"
                     /\ gt'[c].cached
                     /\ gt'[c].ret = token
                     /\ gt'[c].reqs = 0
                     /\ tokReqs' = tokReqs
    IN  /\ fromCache <=> fresh
        /\ (token # None /\ expire_time = gt'[c].cur + 30)
              => /\ gt'[c].pc \in {"inflight", "wait"}
                 /\ gt'[c].pc = "inflight" => tokReqs' = tokReqs + 1

C5_ThreeAttempts ==
    \A c \in Procs :
        /\ gt[c].reqs <= 3
        /\ gt[c].fails <= gt[c].reqs
        /\ (gt[c].pc = "ret" /\ ~gt[c].cached /\ gt[c].ret = None)
              => gt[c].reqs = 3 /\ gt[c].fails = 3
        /\ (gt[c].pc = "ret" /\ ~gt[c].cached /\ gt[c].ret # None)
              => gt[c].fails = gt[c].reqs - 1
        /\ gt[c].pc \in {"inflight", "sleep"} => gt[c].fails < 3

\* C5 witness: a call that gave up after its third failed attempt
C5_Witness ==
    \E c \in Procs :
        /\ gt[c].pc = "ret"
        /\ gt[c].ret = None
        /\ gt[c].reqs = 3
        /\ gt[c].fails = 3

\* the last element of a non-empty sequence
Last(q) == q[Len(q)]

\* a reply that process is said to class as a failure: it starts with one of
\* the client's three error prefixes or has a failure or error marker within
\* its first 100 characters
FailureReply(r) ==
    \/ \E e \in {<<"LLM_REQUEST", "FAIL">>, <<"LLM_REQUEST", "EXCEPTION">>,
                  <<"LLM_REQUEST", "TIMEOUT">>} :
          Len(r) >= Len(e) /\ \A i \in 1..Len(e) : r[i] = e[i]
    \/ \E i \in 1..Len(r) : i <= 100 /\ r[i] \in {"FAIL", "ERROR"}

\* C1: within one process invocation the clients are called in the order
\* recognition, generation, synthesis; generation only after recognition
\* returned a non-empty transcript and no error; synthesis only after
\* generation returned a reply that is no failure; and after a failed stage
\* no later client is called.
C1_StageOrder ==
    \A p \in PipeProcs :
        LET f == run[p] IN
        /\ f.calls \in {<<>>, <<"asr">>, <<"asr", "llm">>, <<"asr", "llm", "tts">>}
        /\ Len(f.calls) >= 2 => Truthy(f.text) /\ f.error = PyNone
        /\ Len(f.calls) = 3 => f.llm_response # NonStr /\ ~FailureReply(f.llm_response)
        \* a client works only while process waits for it
        /\ asr[p].pc # "idle" => f.pc = "asr" /\ f.calls = <<"asr">>
        /\ llm[p].pc # "idle" => f.pc = "llm" /\ f.calls = <<"asr", "llm">>
        /\ (tts[p].pc # "idle" /\ vp[p].pc = "idle")
              => f.pc = "tts" /\ f.calls = <<"asr", "llm", "tts">>
        \* a failed stage is the last one called
        /\ (f.pc = "done" /\ f.result.error \in {"asr_failed", "asr_empty_result"})
              => f.calls = <<"asr">>
        /\ (f.pc = "done" /\ f.result.error \in {"llm_failed", "exception"})
              => f.calls = <<"asr", "llm">>

\* C1 witness: the synthesis request is in flight after the two earlier stages
C1_Witness ==
    \E p \in PipeProcs :
        /\ tts[p].pc = "inflight"
        /\ run[p].calls = <<"asr", "llm", "tts">>
        /\ Truthy(run[p].text)
        /\ llm[p].pc = "idle"

\* C2: what process returns is either a failure carrying only an error
\* message, or a success carrying text, response, audio and session_id, with
\* a non-empty transcript and at least 100 bytes of audio.
C2_Result ==
    \A p \in PipeProcs :
        LET f == run[p]
            res == f.result IN
        /\ f.pc # "done" => res = NoResult
        /\ f.pc = "done" =>
              \/ /\ res.keys = {"error"}
                 /\ res.error # PyNone
                 /\ res.text = PyNone /\ res.response = NonStr /\ res.audio = 0
                 /\ res.session_id = PyNone
              \/ /\ res.keys = {"text", "response", "audio", "session_id"}
                 /\ res.error = PyNone
                 /\ Truthy(res.text)
                 /\ res.response # NonStr
                 /\ res.audio >= 100
                 /\ res.session_id = f.session_id /\ res.session_id # PyNone

\* C2 witness: a success
C2_Witness ==
    \E p \in PipeProcs :
        /\ run[p].pc = "done"
        /\ run[p].result.keys = {"text", "response", "audio", "session_id"}
        /\ run[p].result.audio >= 100

\* C6: when get_token supplies no token, speech_to_text returns no text and
\* an error, having sent no recognition request and neither validated nor
\* converted the audio.
C6_NoToken ==
    \A p \in PipeProcs :
        (asr[p].pc \notin {"idle", "token"} /\ asr[p].refreshes = 0
            /\ asr[p].token = None)
          => /\ asr[p].pc = "ret"
             /\ asr[p].text = PyNone
             /\ asr[p].error # PyNone
             /\ asr[p].reqs = 0
             /\ ~asr[p].validated
             /\ ~asr[p].converted

\* C6 witness: speech_to_text has returned for want of a token
C6_Witness ==
    \E p \in PipeProcs :
        /\ asr[p].pc = "ret"
        /\ asr[p].token = None
        /\ asr[p].refreshes = 0
        /\ asr[p].reqs = 0
        /\ asr[p].error # PyNone

\* C7: a 4xx answer other than 408 ends speech_to_text at once with an error:
\* no sleep follows it and no further request; as the first answer, the call
\* has sent exactly 1 request.
C7_ClientError ==
    \A p \in PipeProcs :
        LET f == asr[p] IN
        (f.hist # <<>> /\ Last(f.hist) >= 400 /\ Last(f.hist) < 500
            /\ Last(f.hist) # 408)
          => /\ f.pc = "ret"
             /\ f.text = PyNone
             /\ f.error # PyNone
             /\ f.reqs = Len(f.hist)
             /\ Len(f.slept) = Len(f.hist) - 1
             /\ Len(f.hist) = 1 => f.reqs = 1 /\ f.slept = <<>>

\* C7 witness: HTTP 400 as the first answer
C7_Witness ==
    \E p \in PipeProcs :
        /\ asr[p].pc = "ret"
        /\ asr[p].hist = <<400>>
        /\ asr[p].reqs = 1

\* speech_to_text has returned the transcript of a 200 answer that followed
\* two HTTP 500 answers
TwoRetriesThenSuccess(p) ==
    /\ asr[p].pc = "ret"
    /\ asr[p].hist = <<500, 500, 200>>
    /\ asr[p].error = PyNone

\* C8 as stated: after HTTP 500, 500, then 200 with a result, speech_to_text
\* returns that transcript after exactly 3 requests and waits of 1 s and 2 s,
\* and once process has taken the outcome the statistics report 2 retries.
C8_AsStated ==
    [][\A p \in PipeProcs :
          (TwoRetriesThenSuccess(p) /\ run[p].pc = "asr" /\ run'[p].pc # "asr")
             => /\ asr[p].reqs = 3
                /\ asr[p].slept = <<1, 2>>
                /\ asr[p].text = asr[p].last.result
                /\ run'[p].text = asr[p].text
                /\ \E k \in DOMAIN stats' : stats'[k] = 2]_vars

\* C9 as stated: an invalid-token answer forces at most one token refresh per
\* speech_to_text call, and the request repeated after it is outside the
\* budget of 3 attempts, so a call gives up on a retryable failure only after
\* 3 requests besides that one.
C9_AsStated ==
    \A p \in PipeProcs :
        LET f == asr[p]
            extra == IF f.refreshes >= 1 THEN 1 ELSE 0 IN
        /\ f.refreshes <= 1
        /\ (f.pc = "ret" /\ f.hist # <<>> /\ Last(f.hist) \in {0, 408, 500})
              => f.reqs - extra = 3

\* C10 as stated: HTTP 200 with status 20000000 and an empty or absent result
\* makes speech_to_text return the empty string with no error value.
C10_AsStated ==
    \A p \in PipeProcs :
        LET f == asr[p] IN
        (f.pc = "ret" /\ f.last.kind = "json" /\ f.last.http = 200
            /\ f.last.status = AsrSuccess /\ ~Truthy(f.last.result))
          => f.text = "" /\ f.error = PyNone

\* speech_to_text has finished preparing the audio of its request
Prepared(f) == f.pc \in {"inflight", "sleep", "refresh", "ret"} /\ f.validated

\* what _convert_audio can return for a payload, over the ways the converter
\* run can end
Conversions(a, outcomes) == {ConvertAudio(a, o) : o \in {x \in outcomes : Feasible(a, x)}}

\* C11: for a payload whose header reads 16000 Hz, 1 channel, 16 bit,
\* validation accepts it, the converter is not run, the body sent to the
\* recognition endpoint is the input byte for byte, and
\* _simple_audio_conversion returns it unchanged.
C11_ValidUntouched ==
    \A p \in PipeProcs :
        LET f == asr[p]
            a == f.audio IN
        (f.validated /\ a.parse /\ a.framerate = 16000 /\ a.nchannels = 1
            /\ a.sampwidth = 2)
          => /\ ValidateAudioFormat(a)
             /\ ~f.converted
             /\ f.pc # "convert"
             /\ f.body = a
             /\ f.reqs >= 1
             /\ SimpleAudioConversion(a) = a

\* C11 witness: a valid payload has been sent as it came
C11_Witness ==
    \E p \in PipeProcs :
        /\ asr[p].pc = "inflight"
        /\ asr[p].audio = Canonical
        /\ asr[p].body = Canonical
        /\ ~asr[p].converted

\* C12 as stated: for a parseable container whose sample rate is not 16000 Hz,
\* what _convert_audio returns passes _validate_audio_format, whether ffmpeg
\* succeeded, exited non-zero, timed out or was absent.
C12_AsStated ==
    \A p \in PipeProcs :
        LET f == asr[p] IN
        (Prepared(f) /\ f.converted /\ f.audio.parse /\ f.audio.framerate # 16000)
          => \A b \in Conversions(f.audio, {"ok", "nonzero", "timeout", "missing"}) :
                ValidateAudioFormat(b)

\* C13: once get_token has supplied a token, speech_to_text sends a request to
\* the recognition endpoint whatever the payload and however the converter
\* run ended (ffmpeg exit 0 or not, timeout, ffmpeg absent, executor error),
\* and a payload that neither wave nor ffmpeg can read is sent as it came.
C13_NeverAborts ==
    \A p \in PipeProcs :
        LET f == asr[p] IN
        /\ (f.pc \notin {"idle", "token", "convert"} /\ f.validated) => f.reqs >= 1
        /\ f.pc = "convert" => f.validated /\ f.reqs = 0 /\ f.token # None
        /\ (f.pc = "ret" /\ f.reqs = 0) => (~f.validated /\ f.token = None)
        /\ (Prepared(f) /\ f.converted) => f.body \in Conversions(f.audio, ConvertOutcomes)
        /\ (Prepared(f) /\ ~f.audio.parse /\ ~f.audio.media)
              => /\ f.converted
                 /\ f.body = f.audio
                 /\ Conversions(f.audio, ConvertOutcomes) = {f.audio}

\* C13 witness: a payload nothing can read has been sent unchanged
C13_Witness ==
    \E p \in PipeProcs :
        /\ asr[p].pc = "inflight"
        /\ ~asr[p].audio.parse
        /\ ~asr[p].audio.media
        /\ asr[p].converted
        /\ asr[p].body = asr[p].audio
        /\ asr[p].reqs = 1

\* a transient failure of a request: a timeout or an HTTP 5xx answer
Transient(last) == last.kind = "timeout" \/ last.http >= 500

\* C16 as stated: text_to_speech sends at most 3 requests, waits 1 s and 2 s
\* between them, and after a request that failed transiently (timeout or
\* HTTP 5xx) it gives up only when that was its third request.
C16_AsStated ==
    \A p \in PipeProcs :
        LET f == tts[p] IN
        /\ f.reqs <= max_retries
        /\ (f.pc = "ret" /\ Transient(f.last)) => f.reqs = max_retries
        /\ (f.pc = "sleep" /\ Transient(f.last)) => Last(f.slept) = Pow2(f.attempt)

\* C17 as stated: generate_response sends at most 3 requests, another one
\* only after a timeout, an HTTP 429 or an HTTP 5xx answer, every other
\* outcome ending the call, with waits of 1 s and 2 s before requests 2 and 3.
C17_AsStated ==
    \A p \in PipeProcs :
        LET f == llm[p] IN
        /\ f.reqs <= max_retries
        /\ f.pc = "sleep" =>
              /\ f.last.kind = "timeout" \/ f.last.http = 429 \/ f.last.http >= 500
              /\ f.reqs < max_retries
        /\ f.pc # "idle" => f.slept = [i \in 1..(f.reqs - 1) |-> Pow2(i - 1)]
                             \/ (f.pc = "sleep"
                                   /\ f.slept = [i \in 1..f.reqs |-> Pow2(i - 1)])

\* the error strings generate_response can return
LlmErrors == {LlmErrHttp, LlmErrTimeout, LlmErrException, LlmErrExhausted}

\* C18: generate_response returns an error string for every failure (an
\* answer other than HTTP 200 with output.text); process classes every such
\* string as a generation failure, so none is passed to text_to_speech and
\* none is the response of a success result.
C18_ErrorStrings ==
    \A p \in PipeProcs :
        LET f == llm[p]
            r == run[p] IN
        /\ f.pc = "ret" =>
              IF f.last.kind = "json" /\ f.last.http = 200
              THEN f.ret \in Replies
              ELSE f.ret \in LlmErrors
        /\ \A e \in LlmErrors : IsLlmFailure(e)
        /\ (r.pc = "tts" \/ tts[p].pc # "idle") => r.llm_response \notin LlmErrors
        /\ (r.pc = "done" /\ r.llm_response \in LlmErrors)
              => r.result = Failure("llm_failed") /\ r.calls = <<"asr", "llm">>
        /\ r.result.response \notin LlmErrors

\* C18 witness: a timeout error string came back and process reported a
\* generation failure without calling text_to_speech
C18_Witness ==
    \E p \in PipeProcs :
        /\ run[p].pc = "done"
        /\ run[p].llm_response = LlmErrTimeout
        /\ run[p].result = Failure("llm_failed")
        /\ run[p].calls = <<"asr", "llm">>

\* C20 as stated: when no process invocation is in flight, total_processed
\* counts the invocations made and total_processed = asr_success + asr_failed,
\* asr_success = llm_success + llm_failed, llm_success = tts_success +
\* tts_failed.
C20_AsStated ==
    (\A p \in PipeProcs : run[p].pc \in {"idle", "done"})
      => /\ stats.total_processed = Cardinality({p \in PipeProcs : run[p].pc = "done"})
         /\ stats.total_processed = stats.asr_success + stats.asr_failed
         /\ stats.asr_success = stats.llm_success + stats.llm_failed
         /\ stats.llm_success = stats.tts_success + stats.tts_failed

\* a text that is empty or made of whitespace only
Whitespace(t) == t = <<>> \/ (t # NonStr /\ \A i \in 1..Len(t) : t[i] = " ")

\* C14: for an empty or whitespace-only text, text_to_speech returns empty
\* bytes and stream_speech yields no chunk, neither having sent a request to
\* the token endpoint or to the synthesis endpoint.
C14_BlankText ==
    \A p \in PipeProcs :
        /\ (tts[p].pc # "idle" /\ Whitespace(tts[p].text))
              => /\ tts[p].pc = "ret"
                 /\ tts[p].ret = 0
                 /\ tts[p].reqs = 0
                 /\ ttsm.tokReqs = 0
                 /\ ttsm.lock = None
        /\ (ss[p].pc # "idle" /\ Whitespace(ss[p].text))
              => /\ ss[p].pc = "done"
                 /\ ss[p].out = <<>>
                 /\ ss[p].got = <<>>
                 /\ ss[p].reqs = 0
                 /\ ttsm.tokReqs = 0
                 /\ ttsm.lock = None

\* C14 witness: stream_speech has ended on a whitespace-only text
C14_Witness ==
    \E p \in PipeProcs :
        /\ ss[p].pc = "done"
        /\ ss[p].text = <<" ">>
        /\ ss[p].out = <<>>
        /\ ss[p].reqs = 0

\* C15: fewer than 100 bytes of synthesized audio are a synthesis failure:
\* process returns a failure and counts tts_failed, the voice processor
\* returns an error and no audio, and no success carries fewer than 100
\* bytes.
C15_ShortAudio ==
    \A p \in PipeProcs :
        /\ (run[p].pc = "done" /\ Len(run[p].calls) = 3 /\ run[p].tts_audio < 100)
              => /\ run[p].result.keys = {"error"}
                 /\ run[p].result.error = "tts_failed"
                 /\ stats.tts_failed = 1
                 /\ stats.tts_success = 0
        /\ (run[p].pc = "done" /\ "audio" \in run[p].result.keys)
              => run[p].result.audio >= 100 /\ run[p].result.audio = run[p].tts_audio
        /\ (vp[p].pc = "done" /\ vp[p].got < 100)
              => vp[p].audio = NoAudio /\ vp[p].error # PyNone
        /\ (vp[p].pc = "done" /\ vp[p].error = PyNone)
              => vp[p].audio >= 100 /\ vp[p].audio = vp[p].got

\* C15 witness: process has reported a synthesis failure for the 99 bytes of
\* an HTTP 200 answer
C15_Witness ==
    \E p \in PipeProcs :
        /\ run[p].pc = "done"
        /\ run[p].tts_audio = 99
        /\ run[p].result.error = "tts_failed"
        /\ stats.tts_failed = 1

\* the lines that are data events carrying a text
DataEvent(l) == l.utf8 /\ l.data /\ l.chunk = "json" /\ l.hasText
RECURSIVE DataTexts(_)
DataTexts(lines) ==
    IF lines = <<>> THEN <<>>
    ELSE LET rest == DataTexts(SubSeq(lines, 1, Len(lines) - 1))
             l == lines[Len(lines)] IN
         IF DataEvent(l) THEN Append(rest, l.text) ELSE rest

\* C19: a stream_response call sends exactly one request; what it yields is,
\* in order and once each, the text of the data events read from that
\* response; and when the response fails or is closed the generator ends,
\* the request not being sent again.
C19_SingleRequest ==
    \A p \in PipeProcs :
        LET f == sr[p] IN
        /\ f.pc # "idle" => f.reqs = 1
        /\ f.out = DataTexts(f.got)
        /\ f.end # "none" => f.pc = "done"
        /\ f.end \in {"status", "failed"} /\ f.got = <<>> => f.out = <<>>

\* C19 witness: the response failed after two data events, both yielded
C19_Witness ==
    \E p \in PipeProcs :
        /\ sr[p].pc = "done"
        /\ sr[p].end = "failed"
        /\ sr[p].out = <<"ni", "hao">>
        /\ Len(sr[p].got) = 3
        /\ sr[p].reqs = 1

\* the failures that name a stage
StageErrors == {"asr_failed", "asr_empty_result", "llm_failed", "tts_failed"}

\* C21 as stated: every failure process returns names one failed stage out of
\* recognition, generation and synthesis; a synthesis failure after the two
\* earlier stages succeeded is reported as one, generation success having
\* been counted once.
C21_AsStated ==
    \A p \in PipeProcs :
        (run[p].pc = "done" /\ run[p].result.keys = {"error"})
          => /\ run[p].result.error \in StageErrors
             /\ run[p].result.error = "tts_failed"
                   => /\ run[p].calls = <<"asr", "llm", "tts">>
                      /\ stats.asr_success = 1
                      /\ stats.llm_success = 1
                      /\ stats.tts_failed = 1

\* the entries of a history that are well formed, in their order
RECURSIVE WellFormed(_)
WellFormed(h) ==
    IF h = <<>> THEN <<>>
    ELSE LET m == h[Len(h)]
             rest == WellFormed(SubSeq(h, 1, Len(h) - 1)) IN
         IF m.role \in {"user", "assistant"} /\ m.content \notin {"", PyNone}
         THEN Append(rest, m) ELSE rest

\* C23: the messages handed to generate_response are the system instruction,
\* then the well-formed entries of the supplied history in their order, each
\* once and as it was, then the transcript as a user message.
C23_Messages ==
    \A p \in PipeProcs :
        llm[p].pc # "idle"
          => LET m == llm[p].messages
                 kept == WellFormed(run[p].chat_history.entries) IN
             /\ Len(m) = Len(kept) + 2
             /\ m[1] = SystemPrompt
             /\ \A i \in 1..Len(kept) : m[i + 1] = kept[i]
             /\ m[Len(m)] = [role |-> "user", content |-> run[p].text]
             /\ Truthy(run[p].text)

\* C23 witness: of a history of a malformed and a well-formed entry the
\* second alone is between the system instruction and the transcript
C23_Witness ==
    \E p \in PipeProcs :
        /\ llm[p].pc = "inflight"
        /\ run[p].chat_history.entries =
              <<Message("user", ""), Message("assistant", "yes")>>
        /\ llm[p].messages = <<SystemPrompt, Message("assistant", "yes"),
                               Message("user", run[p].text)>>

\* process has taken the reply of generate_response
ReplyTaken(f) == f.pc = "tts" \/ (f.pc = "done" /\ Len(f.calls) >= 2)

\* C24 as stated: process classes a reply as a failure (llm_failed counted, no
\* synthesis call, failure returned) exactly when it starts with one of the
\* three prefixes or has a failure or error marker in its first 100
\* characters; every other reply counts as a generation success and goes to
\* text_to_speech.
C24_AsStated ==
    \A p \in PipeProcs :
        LET f == run[p] IN
        ReplyTaken(f)
          => IF FailureReply(f.llm_response)
             THEN /\ stats.llm_failed = 1 /\ stats.llm_success = 0
                  /\ f.calls = <<"asr", "llm">>
                  /\ f.pc = "done" /\ f.result.keys = {"error"}
             ELSE /\ stats.llm_success = 1 /\ stats.llm_failed = 0
                  /\ f.calls = <<"asr", "llm", "tts">>

\* C27 as stated: a process invocation draws one session id, every request of
\* its recognition, generation and synthesis calls carries it, and it is the
\* session_id of the success result.
C27_AsStated ==
    \A p \in PipeProcs :
        LET f == run[p] IN
        f.pc # "idle"
          => /\ f.session_id # PyNone
             /\ asr[p].pc # "idle" => asr[p].session = f.session_id
             /\ llm[p].pc # "idle" => llm[p].session = f.session_id
             /\ tts[p].pc # "idle" => tts[p].session = f.session_id
             /\ "session_id" \in f.result.keys => f.result.session_id = f.session_id

\* the invocations that have returned, and those among them that ended as one
\* of the errors e
Done == {p \in Procs : run[p].pc = "done"}
Ended(e) == Cardinality({p \in Done : run[p].result.error \in e})
Called(c) == Cardinality({p \in Done : \E i \in 1..Len(run[p].calls) : run[p].calls[i] = c})

\* once every invocation that was started has returned, each counter is the
\* number of invocations with that outcome
CountersMatch ==
    (\A p \in Procs : run[p].pc \in {"idle", "done"})
      => /\ stats.total_processed = Cardinality(Done)
         /\ stats.asr_failed = Ended({"asr_failed", "asr_empty_result"})
         /\ stats.asr_success = Called("llm")
         /\ stats.llm_failed = Ended({"llm_failed"})
         /\ stats.llm_success = Called("llm") - Ended({"llm_failed"})
         /\ stats.tts_failed = Ended({"tts_failed"})
         /\ stats.tts_success =
               Cardinality({p \in Done : "audio" \in run[p].result.keys})

\* C22: whatever the interleaving of concurrent process invocations, no
\* counter update is lost: when all have returned total_processed is their
\* number and each stage counter the number of outcomes of its kind, and no
\* step ever lowers a counter.
C22_NoLostUpdate ==
    /\ []CountersMatch
    /\ [][\A k \in DOMAIN stats : stats'[k] >= stats[k]]_vars

\* C22 witness: all NumCallers invocations have returned, one with audio and
\* one with a synthesis failure, after two token requests of the synthesis
\* client
C22_Witness ==
    /\ Cardinality(Done) = NumCallers
    /\ stats.total_processed = NumCallers
    /\ stats.tts_success >= 1
    /\ stats.tts_failed >= 1
    /\ ttsm.tokReqs >= 2

C28_VoiceOrder ==
    \A p \in PipeProcs :
        LET f == vq[p] IN
        /\ f.calls \in {<<>>, <<"asr">>, <<"asr", "responder">>,
                         <<"asr", "responder", "tts">>}
        /\ Len(f.calls) >= 2
              => /\ f.error = PyNone
                 /\ f.text \notin {PyNone, ""}
                 /\ f.query = f.text
        /\ Len(f.calls) = 3
              => /\ f.spoken = f.reply
                 /\ f.result.response = f.reply
        /\ (tts[p].pc # "idle" /\ f.pc # "idle")
              => /\ Len(f.calls) = 3
                 /\ tts[p].text = f.reply
        /\ (f.pc = "done" /\ (f.error # PyNone \/ f.text \in {PyNone, ""}))
              => /\ f.calls = <<"asr">>
                 /\ "error" \in f.result.keys
                 /\ f.result.error # PyNone
                 /\ tts[p].pc = "idle"

\* C28 witness: a query whose transcript went to process_query and whose
\* response was synthesised has returned with audio
C28_Witness ==
    \E p \in PipeProcs :
        /\ vq[p].pc = "done"
        /\ vq[p].calls = <<"asr", "responder", "tts">>
        /\ vq[p].query = "nihao"
        /\ vq[p].spoken = <<"ni", "hao">>
        /\ vq[p].result.audio_response = 2000

\* C28 second witness: a query whose recognition returned an empty transcript
\* has returned with an error and no further call
C28_WitnessFailed ==
    \E p \in PipeProcs :
        /\ vq[p].pc = "done"
        /\ vq[p].text = ""
        /\ vq[p].calls = <<"asr">>

\* C29 as stated: once _convert_audio_sync has returned, on whatever path,
\* neither the temporary input file nor the output file it made exists.
C29_AsStated ==
    \A p \in PipeProcs :
        cv[p].pc = "done" => ~cv[p].input /\ ~cv[p].output

\* C30 as stated: called at the same clock values and given the same answers
\* of the token endpoint, get_tts_token and get_token have sent the same
\* number of requests when both have returned, return a token in the same
\* cases, the same one, and hold it fresh until the same time.
C30_AsStated ==
    TwinReturned
      => /\ tokReqs = ttsm.tokReqs
         /\ (gt[Twin].ret = None) <=> (tts[Twin].token = None)
         /\ gt[Twin].ret = tts[Twin].token
         /\ TokenValid(now) <=> TtsTokenValid
         /\ token # None => expire_time - RefreshMargin = ttsm.token_expire

\* C25 as stated: after process_streaming has returned its two streams, no
\* request goes to the synthesis endpoint before the generation stream of the
\* same invocation is exhausted.
C25_AsStated ==
    \A p \in PipeProcs :
        (ps[p].pc = "returned" /\ ss[p].reqs > 0) => sr[p].pc = "done"

\* the waits 2 ** 0, 2 ** 1, ... that precede n further attempts
Backoffs(n) == [i \in 1..n |-> Pow2(i - 1)]

\* C31 as stated: in a token refresh, every attempt after the first was
\* preceded by an exponential backoff wait (1 s before the second, 2 s before
\* the third), whatever made the attempt before it fail.
C31_AsStated ==
    \A c \in Procs :
        gt[c].pc = "inflight" => gt[c].slept = Backoffs(gt[c].reqs - 1)

\* the coroutines whose request to a token endpoint is in flight
RefreshingAsr == {p \in Procs : gt[p].pc = "inflight"}
RefreshingTts == {p \in Procs : tts[p].pc = "tokinflight"}

\* C32: for each token manager at most one request to the token endpoint is
\* in flight at any time, and the coroutine that sent it holds the manager's
\* lock, under every interleaving of concurrent calls and invalidations.
C32_OneInFlight ==
    /\ Cardinality(RefreshingAsr) <= 1
    /\ Cardinality(RefreshingTts) <= 1
    /\ \A p \in RefreshingAsr : lock = p
    /\ \A p \in RefreshingTts : ttsm.lock = p

\* C32 witness: two recognition calls had their token rejected and cleared
\* the cache; one refresh is in flight and the other call waits for the lock
C32_Witness ==
    \E p, q \in Procs :
        /\ asr[p].refreshes = 1 /\ asr[q].refreshes = 1
        /\ gt[p].pc = "inflight"
        /\ gt[q].pc = "wait"
        /\ token = None

\* C32 witness for the synthesis token: one request of get_tts_token is in
\* flight and the other call waits for the lock its sender holds
C32_WitnessTts ==
    \E p, q \in Procs :
        /\ tts[p].pc = "tokinflight"
        /\ tts[q].pc = "tokwait"
        /\ ttsm.lock = p

\* coroutine p sends its recognition request again after the 40000004 status
AsrResent(p) ==
    /\ asr[p].pc = "sleep"
    /\ asr[p].last.status = InvalidToken
    /\ asr'[p].pc = "inflight"

\* coroutine p sends its synthesis request again after an error answer that
\* mentions the token
TtsResent(p) ==
    /\ tts[p].pc = "sleep"
    /\ tts[p].last.kind = "http"
    /\ tts'[p].pc = "inflight"

\* C33 as stated: the request sent again after a token was rejected carries a
\* freshly obtained token, not the rejected one: in speech_to_text the token
\* the forced get_token returned, in text_to_speech a token obtained after the
\* failure.
C33_AsStated ==
    [][\A p \in Procs :
          /\ AsrResent(p) => asr'[p].urltoken = asr[p].token
          /\ TtsResent(p) => tts'[p].token # None /\ tts'[p].token = ttsm.token]_vars

\* coroutine p receives the 40000004 status and clears the cached token
Invalidates(p) ==
    /\ asr[p].pc = "inflight"
    /\ asr'[p].pc = "refresh"

\* C34 as stated: the invalidation that follows the rejection of token T
\* clears the cache only while the cached token is still T; a token that
\* another call's refresh has stored since is kept.
C34_AsStated ==
    [][\A p \in Procs :
          (Invalidates(p) /\ token # asr[p].urltoken) => token' = token]_vars

\* the ExpireTime the token endpoint reported with the token a manager holds
\* after n requests: that of the latest answer, among the first n, that
\* carried a token (Absent when there is none, or when it reported none)
Reported(n) ==
    LET oks == {i \in 1..n : tw.script[i].id # None} IN
    IF oks = {} THEN Absent
    ELSE tw.script[CHOOSE i \in oks : \A j \in oks : j <= i].expire

\* C35 as stated: get_token and get_tts_token return the cached token only at
\* times not later than the ExpireTime reported for it minus 60 s.
C35_AsStated ==
    [][/\ (/\ gt[Twin].pc = "enter"
           /\ gt'[Twin].pc = "ret" /\ gt'[Twin].cached
           /\ Reported(tokReqs) # Absent)
              => now <= Reported(tokReqs) - RefreshMargin
       /\ (/\ tts[Twin].pc = "idle"
           /\ tts'[Twin].pc = "inflight"
           /\ Reported(ttsm.tokReqs) # Absent)
              => now <= Reported(ttsm.tokReqs) - RefreshMargin]_vars

\* C36 as stated: a get_token or get_tts_token call whose refresh has failed
\* leaves the manager's cached token and stored expiry as they were when the
\* call was made, and the manager's lock free.
C36_AsStated ==
    /\ (gt[Twin].pc = "ret" /\ ~gt[Twin].cached /\ gt[Twin].ret = None)
          => /\ token = tw.asr0.token
             /\ expire_time = tw.asr0.expire_time
             /\ lock = None
    /\ (tts[Twin].pc = "ret" /\ tts[Twin].token = None)
          => /\ ttsm.token = tw.tts0.token
             /\ ttsm.token_expire = tw.tts0.expire_time
             /\ ttsm.lock = None

\* C37: when generation returns an empty or whitespace-only reply, process
\* counts llm_success, hands the reply to text_to_speech, which returns empty
\* bytes without a request to the synthesis token endpoint or to the synthesis
\* endpoint, and returns a synthesis failure with tts_failed counted.
C37_BlankReply ==
    [][\A p \in PipeProcs :
          /\ (run[p].pc = "llm" /\ run'[p].pc # "llm" /\ Whitespace(llm[p].ret))
                => /\ stats'.llm_success = stats.llm_success + 1
                   /\ stats'.llm_failed = stats.llm_failed
                   /\ run'[p].pc = "tts"
                   /\ tts'[p].pc = "ret" /\ tts'[p].ret = 0 /\ tts'[p].reqs = 0
                   /\ ttsm' = ttsm
          /\ (run[p].pc = "tts" /\ run'[p].pc # "tts"
                  /\ Whitespace(run[p].llm_response))
                => /\ run'[p].pc = "done"
                   /\ run'[p].result = Failure("tts_failed")
                   /\ stats'.tts_failed = stats.tts_failed + 1
                   /\ stats'.tts_success = stats.tts_success
                   /\ tts[p].reqs = 0
                   /\ ttsm' = ttsm]_vars

\* C37 witness: an invocation has ended on a whitespace-only reply, with
\* generation counted as a success, synthesis as a failure, and no request
\* sent for a synthesis token
C37_Witness ==
    \E p \in PipeProcs :
        /\ run[p].pc = "done"
        /\ run[p].llm_response = <<" ">>
        /\ run[p].result = Failure("tts_failed")
        /\ stats.llm_success = 1
        /\ stats.tts_failed = 1
        /\ ttsm.tokReqs = 0

\* C38: when synthesis fails (no audio, or fewer than 100 bytes) after a
\* successful recognition and responder call, the dict process_voice_query
\* returns has no "error" key, keeps the transcript as recognized_text and the
\* responder's response, and has audio_response set to None.
C38_VoiceTtsFailure ==
    [][\A p \in PipeProcs :
          (vq[p].pc = "tts" /\ vq'[p].pc = "done" /\ tts[p].ret < MinAudio)
              => LET r == vq'[p].result IN
                 /\ "error" \notin r.keys
                 /\ r.error = PyNone
                 /\ {"recognized_text", "response", "audio_response"} \subseteq r.keys
                 /\ r.recognized_text = vq[p].text
                 /\ r.recognized_text \notin {PyNone, ""}
                 /\ r.response = vq[p].reply
                 /\ r.audio_response = NoAudio]_vars

\* C38 witness: a query whose recognition and responder call succeeded and
\* whose synthesis failed has returned without audio
C38_Witness ==
    \E p \in PipeProcs :
        /\ vq[p].pc = "done"
        /\ vq[p].calls = <<"asr", "responder", "tts">>
        /\ "audio_response" \in vq[p].result.keys
        /\ vq[p].result.audio_response = NoAudio
        /\ vq[p].result.recognized_text = "nihao"
        /\ vq[p].result.response = <<"ni", "hao">>

\* C39 as stated: the session_id handle_request returns for a successful
\* request is the session id that process attached to the recognition and
\* synthesis requests of that request.
C39_AsStated ==
    \A p \in PipeProcs :
        (hr[p].pc = "done" /\ hr[p].success)
            => /\ hr[p].returned = run[p].session_id
               /\ hr[p].returned = run[p].result.session_id

====
